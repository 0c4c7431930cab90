# TLA+ models of pyvrs

This directory holds TLA+ models of the Python layer of VRS, `src/pyvrs/pyvrs/`. That layer is the index, filter and search engine that spec.md describes. The models are checked with TLC.

## The system

`pyvrs` wraps a native record store (`vrsbindings.Reader` / `AsyncReader`, C++, not in `src/`). The parts, leaf first:

| Part | Code | What it does |
|---|---|---|
| Native store | vrsbindings (spec.md 1, 4.3, 4.5, 4.6, 6) | Holds the timestamp-ordered catalog of records. Answers lower-bound and nearest lookups by time and prev/next matching index. Recomputes filtered index lists. Decodes records; in auto mode it first decodes the stream's preceding configuration record. |
| Whole-file reader | `reader.py` `VRSReader`, `SyncVRSReader`, `AsyncVRSReader` | List-like access over `range(n_records)`, plus by-time lookup and read, prev/next reads, and `filtered_by_fields`. |
| Filter expansion | `utils.py` `_filter_set_on_condition`, `filter_by_stream_ids`, `filter_by_record_type` | Expands stream-id globs (`fnmatch`) and matches record types exactly. |
| Filtered view | `filter.py` `RecordFilter`, `FilteredVRSReader`, `Sync/AsyncFilteredVRSReader` | Holds an index list derived once. It remaps by-time results into the view with `bisect` and maps positions to absolute indices for prev/next. |
| Indexing and slicing | `slice.py` `index_or_slice_records`, `VRSReaderSlice`, `AsyncVRSReaderSlice` | Turns a position or slice of an index list into a decode or a sub-view. |
| Async iteration | `__aiter__`/`__anext__` of the async reader, async filtered reader and async slice | A cursor stored on the object. The only suspension point is the record decode. |
| Metadata keys | `utils.py` `stringify_metadata_keys`, used by `record.py` `VRSRecord.metadata_blocks` | Flattens `(name, type) -> value` into unique string keys. |
| Scripts | `src/release_utils.py`, `src/timestamp.py` | Version bump and timestamp shifting. Both are file I/O. |

How the parts interact:
- A reader is opened once over an immutable file.
- `filtered_by_fields` resolves defaults and globs against the reader's available sets. It then asks the store for the index list.
- Every record access, whether by position, by time or as a neighbour, is one `read_record` call on the store. That call changes the store's decoder state: the configuration record it last decoded per stream.

## Modules

| Module | Models | State | Actions |
|---|---|---|---|
| `VRSStore` | the native store (spec-modelled: its code is not in `src/`) | `file` (index → record, fixed), `auto`, `decoded[stream]` | operators for each store call; `ReadRecord(i)` changes `decoded` |
| `PyVRSReader` (EXTENDS VRSStore) | `SyncVRSReader`, `SyncFilteredVRSReader`, utils filters, integer indexing | `view` (the filtered reader or None), `lastRead` (outcome of the last read) | `FilteredByFields`, `Refilter`, `GetItem`, `GetRecordIndexByTimeCall`, `ReadRecordByTime`, `ReadPrevRecord`, `ReadNextRecord`, `GetTimestampForIndex`, `GetTimestampList`, each on the base or the filtered reader; the read-only properties `n_records`, `record_types`, `min_timestamp`, `max_timestamp`, `time_range` are operators (`NRecordsOf` ... `TimeRange`) |
| `MetadataKeys` | `stringify_metadata_keys` and `_unique_string_for_key` | `entries`, loop position `k`, `filtered`, `ambiguous_names`, `removed_types`, `status` | one action per branch of the loop body (`StoreAmbiguous`, `StoreFirstCollision`, `StoreBare`) and `Return` |
| `Slicing` | `index_or_slice_records` on an index list and `VRSReaderSlice`, sliced again; `VRSBlocks` (record.py) over a record's `range(n_blocks)` (`BlockRanges`) | `indices` (the list of the object sliced), `chain`, `lastItem` | `Item(i)`, `SliceOf(a, b, c)`, `SliceStepZero` |
| `ReaderSummary` (EXTENDS PyVRSReader) | `VRSReader.__str__`, `Sync/AsyncFilteredVRSReader.__str__`, the count memo `_record_count_by_type_from_stream_id`, `AsyncVRSReader.filtered_by_fields` | adds `facade` (sync or async reader), `memo` (`_record_counts_by_type`), `lastStr` | `FilteredByFieldsOf`, `Str(on)` |
| `AsyncIteration` | `__aiter__`/`__anext__`/`__getitem__`/`__len__` of `AsyncVRSReader`, `AsyncFilteredVRSReader` and `AsyncVRSReaderSlice`; `async_index_or_slice_records` | `index[o]` (the cursor of object o), `loops[t]` (the stack of nested loops of asyncio task t, each with the absolute indices it yielded), `raised[t]` (an IndexError ended task t's loops), `sliceIndices[s]` (the `_indices` of the slice in slot s), `root[s]` (history: the reader or filtered reader s was sliced down from) | per task t: `StartLoop(t, o)`, `Stop(t)`, `Anext(t)` (runs `self[self._index]` up to the await, `AwaitItem`: an out-of-range `vrs_indices[i]` raises IndexError there), `Resume(t)` (reads `ReadItem`: the record at `ListOf(o)[pos]`), `GetSlice(t, o, s, a, b, c)` (`await o[a:b:c]`, using `Slicing`'s `PySlice`); the caller's `BodyDone(t)`, `Break(t)`, `Cancel(t)`. Tasks interleave step by step; each step is code between two awaits. |
| `RecordSource` (EXTENDS VRSStore) | the `BaseVRSReader` contract (base.py): a filterable list over the file, filtered once, whose reads return the record each docstring names | `subset` (the filtered reader's records or None), `result`, `call` (the call that returned a record) | `Filter`, `Query`, `Fail`, `Read` (decode of one record) |
| `MC_*` | the instantiations for TLC; `MC_RecordSource` adds the history variable `lastCall` to `PyVRSReader` | | |

### How the code maps to the model

- **Results.** What a call returns is a pure operator of the file, the view and the arguments: `GetItemResult`, `IndexByTimeResult`, `IndexForTime`, `NeighborResult` and `TimestampForIndexResult`.
  - The properties about results quantify over every argument in every reachable state.
  - A call that reads a record also performs the store's `ReadRecord`. That is the only state change, apart from creating a view.
  - Results are tagged records (`Ok(v)`, `NoneResult`, `Raise(e)`), so a raised exception is a value the properties can talk about.
- **Python semantics kept:**
  - negative list indices (`PyIndexOk`, `PyAt`);
  - `bisect.bisect` (`Bisect`);
  - the truth value of `epsilon` (`Truthy`: 0 is false);
  - `fnmatch` on `"<type>-<instance>"` patterns where a whole part may be `*` (`Fnmatch`).
- **Native store contract** (spec.md):
  - the lower bound raises ValueError when nothing is found;
  - the nearest lookup uses an exclusive window (`|ts - t| < epsilon`), with ties going to the smaller index, and raises TimestampNotFoundError when nothing is found;
  - prev/next raise IndexError when no record matches;
  - an unknown stream raises StreamNotFoundError.
- **Base reader with negative positions.** The native prev/next and timestamp calls are not defined for negative absolute indices. So the base reader is only given positions ≥ 0 there (`BasePositions`).
- **Slicing.** `vrs_indices[indices]` with a slice is Python's list slicing: `PySlice` follows CPython's normalisation (`Adjust`, `StartOf`, `StopOf`, `SliceLength`). The integer branch reads `vrs_indices[i]` or raises IndexError; a step of 0 raises ValueError.
- **Summaries.** A summary is kept as the facts it prints (enabled and total counts, auto mode, streams, types, time ranges, counts by type per stream); its layout, the path and the tag table are formatting. The loop over the object's streams fills the count memo as it goes, and a filtered view's count call goes to its reader, so the memo is shared.
- **Metadata keys.** A key is kept as its parts: a name is `<<n>>`, and `name + "<"*i + type + ">"*i` is `Bracket(name, type, i)`. Two keys are equal exactly when the strings are. A block name may itself look like a synthesized key (`acceleration<int>`), as names in real files can.

- **Refinement.** `MC_RecordSource` runs `PyVRSReader` with a history variable `lastCall`. It names the method, object and arguments of each call that returned a record, and is `<<"none">>` after any other call. `RS == INSTANCE RecordSource` maps `subset` to the view's index set, `result` to `lastRead` and `call` to `lastCall`. So each read is checked against the exact contract of the call that made it, not against "some call could have returned this". `RecordSource` states the docstrings' contract: `ByTimeAllowed` and `NeighborAllowed` take only records of the object's subset (base.py:44-52), and a neighbour read's index is an absolute index of the file (base.py:349, 366). Three calls diverge from that contract, and each has a violation run of its own: a filtered reader's `read_record_by_time` (filtered_read_by_time), its neighbour reads (filtered_neighbor_anchor), and an epsilon of 0 (epsilon_zero). `HNext` leaves the first two out, and `Epsilons` holds no 0, so the refinement run checks everything else.

## Runs

| Run | cfg | Expect | Shows |
|---|---|---|---|
| reader | `MC_PyVRSReader.cfg` | pass | Over every file of up to 3 records on 2 streams and every sequence of calls, five properties hold:<br>• `FilterSelectsExactlyRequested`: a filtered view holds exactly the records the request admits (defaults mean "no restriction", globs for streams, exact types, inclusive bounds).<br>• `RemapExactOnHit`: when the whole-file by-time result is in the view, the filtered lookup returns its position.<br>• `NeighborIsNearestMatch`: prev/next return the nearest matching record on the right side of the anchor, and None only when none exists.<br>• `TimestampsAgreeWithItems`: for every position, `get_timestamp_for_index` succeeds exactly when `obj[i]` does and gives the timestamp of that record, which is also entry i of `get_timestamp_list()`. This includes negative positions of a view, which pass the `index >= len` check and wrap.<br>• `ViewDescribesItsRecords`: `obj[0]`..`obj[n_records-1]` are `n_records` distinct records of the types in `record_types`, and `min_timestamp`/`max_timestamp` are the least and greatest of their timestamps (0 for none). A view caches these from the first and last entries of its index list, which is right only because that list is in file order. |
| epsilon_zero | `MC_PyVRSReader_EpsilonBoundsResult.cfg` | violation | `epsilon=0` is falsy, so the unbounded lower-bound search runs and returns a record outside the (empty) window. |
| filtered_read_by_time | `MC_PyVRSReader_FilteredReadByTimeInView.cfg` | violation | `FilteredVRSReader.read_record_by_time` reads from the whole file and can return a record the filter excludes. |
| metadata_keys | `MC_MetadataKeys.cfg` | pass | For every block of up to 4 distinct (name, type) entries over 3 names (one of them bracket-shaped) and 3 types, two properties hold:<br>• `NoEntryLost`: no entry is lost or duplicated.<br>• `KeysFollowRules`: names used once stay bare, and every entry of a shared name gets a `name<..type..>` key. |
| metadata_keyerror | `MC_MetadataKeys_NeverRaises.cfg` | violation | `(a,int), (a,float), (a<int>,x)`: the third name is in `filtered` only as a synthesized key, so `removed_types.pop` raises KeyError. |
| slicing | `MC_Slicing.cfg` | pass | For every ascending index list of up to 5 records and up to two chained slices, with every start and stop in -6..6 or omitted and every step in -2..2 or omitted, `TypeOK`: a slice holds absolute record indices of the file, and an item read returns one of them or raises IndexError (out of range) or ValueError (step 0). Its mutant reads the position itself instead of the list entry at it. How CPython normalises the slice is CPython's, not this repository's, so no property compares it with a reference. |
| reader_summary | `MC_ReaderSummary.cfg` | pass | Files as in the reader run (timestamps 0..2), either auto mode and either facade. `STypeOK`: whatever order a reader and its view are summarised in, the shared memo holds, for streams of the file only, positive counts of the types each stream has (no zero entries), and `str()` either returns a summary or raises AttributeError. |
| summary_raises | `MC_ReaderSummary_SummaryNeverRaises.cfg` | violation | `str()` of a view made by `AsyncVRSReader.filtered_by_fields` raises AttributeError: `AsyncFilteredVRSReader.__str__` reads `self._auto_read_configuration_records`, which only the whole-file reader sets (filter.py:510). |
| refinement | `MC_RecordSource.cfg` | pass | `RSSpec`: every behaviour of the reader model is a behaviour of `RecordSource`. Each item read, whole-file `read_record_by_time` and whole-file neighbour read returns the record its `BaseVRSReader` docstring names for its arguments, and decodes it as the store does. A view is made once. Queries and raises change nothing. The calls left out are listed under Refinement above. |
| filtered_neighbor_anchor | `MC_PyVRSReader_NeighborAnchorIsAbsolute.cfg` | violation | The filtered `read_prev_record`/`read_next_record` look up `self._filtered_indices[index]` (filter.py:367, 385), so `index` is a position in the view. Their docstrings and spec.md 4.5 call it an absolute index of the file. File [configuration@0, data@1] filtered to data: `read_prev_record(s, "data", 0)` returns record 1, which is after index 0. An absolute index past the view's length is off the list: `read_next_record` catches the IndexError and returns None, but `read_prev_record` has no `try` and raises it. |
| async_iteration | `MC_AsyncIteration.cfg` | pass | Two asyncio tasks iterate a reader (2 records), a filtered reader (record 1) and slices of either (`[::-1]`, in two slots, so slices of slices) in loops nested two deep, with breaks and cancellations, interleaving at every step. As spec.md section 5 requires, no object is iterated by two loops at once; all loops still share the one native reader. `EachLoopYieldsAll`: every loop that runs to StopAsyncIteration yields the object's records in order. `NoIndexError`: `__anext__` never raises IndexError. `SlicesOfFilteredStayFiltered`: whatever chain of slices is made from the filtered reader, its loops yield only filtered records. |
| async_iteration_reenter | `MC_AsyncIteration_Reenter.cfg` | violation | One task (`Tasks = {t1}`, so no concurrency), and a loop may iterate an object an enclosing loop is iterating. An `async for` nested in a loop over the same object resets the cursor stored on the object. In TLC's trace the outer loop over the filtered reader has yielded record 1; the nested loop starts over, and a timeout handled in the outer body cancels it while it awaits. The outer loop then yields record 1 a second time. Had the inner loop run to the end, the outer one would stop early instead. |

Every property of a passing run has a mutant in `PROJECT.json`: a plausible bug in the code that TLC finds. Examples:
- stream ids compared without glob expansion;
- `bisect_left` for `bisect`;
- a filtered neighbour read that forgets to map its position;
- key escalation that stops at one bracket;
- a collision that does not mark the name ambiguous;
- an `__aiter__` that keeps an old cursor;
- a filtered `get_timestamp_for_index` that passes the view position to the whole-file reader;
- a view that reports its filter's time bounds as its first and last timestamps;
- an `__anext__` without the end-of-list test (IndexError at the end);
- a slice that stores positions of its parent's list instead of absolute indices;
- the reader's list taken as `range(1, n + 1)`.

### Bounds

- **Reader.** Files have up to 3 records on 2 streams, with configuration and data types and timestamps 0..1.
  - Three records are enough for each case:
    - a configuration record between two data records of one stream (auto mode under reverse access);
    - a record before a view's first record, which exercises the clamp;
    - the remap bug needs data(0), configuration(1), data(1).
  - Callers also pass a stream id absent from the file (`300-1`) and a glob matching nothing (`300-*`).
  - Positions range over -1..3, so both out-of-range sides are exercised.
  - Epsilon is None or 1; the epsilon_zero run adds 0.
  - The pass run takes about 2 minutes. Timestamps 0..2 take more than 5.
- **Metadata keys.** Up to 4 entries. Three entries of one name are needed to reach the ambiguous branch. A bracket-shaped name is needed to reach escalation and the KeyError.
- **Slicing.** Lists of up to 5 indices, bounds -6..6 (beyond the length on both sides) and steps -2..2, two slices deep: every clamp is reached and a slice of a slice of a reversed slice is checked.
- **Summary.** The reader run's files with timestamps 0..2, both facades and both auto modes; a run takes about 15 seconds.
- **Refinement.** The history variable multiplies the states, so this run is bounded more tightly, to about 2 minutes:
  - only the file's streams are passed as arguments, with the globs `100-*` and `*-1`;
  - the type argument is `data`, with no time bounds;
  - positions are -1, 0 and 2;
  - timestamps are 0..2 and auto mode is on.
  - Timestamps 0..1 are not enough: then every record of a stream lies within epsilon 1 of the time asked, and a lower-bound lookup in place of the nearest one goes unnoticed.
- **Async iteration.** Two tasks, a reader of two records, a filtered reader of one (record 1), two slice slots, the slice `[::-1]` and nesting depth 2 per task; a run takes about 80 seconds. Three records or a second slice argument take over four minutes with two tasks. The filtered list skips record 0, so a slice that keeps positions instead of indices reads a record outside the view. Two slots give slices of slices. Negative bounds, other steps and step 0 (ValueError) are checked by `Slicing`. Deeper nesting repeats the same interactions.

### Fairness and deadlock

No run checks a liveness property, and no spec adds fairness. Termination of an `async for` follows from the code, not from scheduling: each `__anext__` either stops at `_index == len`, or reads `vrs_indices[_index]`, which raises IndexError past the end, and only then advances the cursor. A lasso in which a loop never ends would need the cursor to step back, and only `__aiter__` (a new loop) does that; the reenter run covers that case.

All properties are safety properties. The reader, slicing, summary and async models never deadlock: a call (an index, a summary, a new loop) is always possible. The `MetadataKeys` model describes one call of `stringify_metadata_keys`, which ends, so its cfgs say `CHECK_DEADLOCK FALSE`: the final state (returned, or KeyError raised) has no successor.

## What is not modelled, and why

- The native store's own code. It is modelled only through its contract in spec.md.
- Concurrent consumers of one async object in a passing run. spec.md section 5 makes that an unsupported precondition; the reenter run shows what happens when it is broken.
- `__repr__`, tag tables, stream info and the layout of `__str__`. These are formatting.
- What the awaited decode does to the store in the async model. `Resume` yields the absolute index read; the decoding of such reads is the store's `ReadRecord`, which the reader model performs for every read. A cancelled await only drops the loop, as the cursor has not moved yet.
- A new slice put in a slot a running loop iterates. In the code that is a new object; the model reuses a slot only when no loop holds it.
- Reads through a slice, composed with the reader. A slice's list is a `PySlice` of its object's list (`Slicing`). Reading item i of it is `read_record` of an absolute index, which the base reader's `GetItem` already performs for every index. So composing the two models would add no decoder behaviour.
- Block payloads and record accessors (`VRSRecord`): numpy conversion and pass-throughs to the native record. How a block list is indexed and sliced is in `Slicing`, and how a metadata block becomes a dict is in `MetadataKeys`.
- `close()`, image-conversion setters, tags, stream info, frame rate and `might_contain_*`. These are pass-throughs to the store, except that a filtered reader's image-conversion setters raise NotImplementedError, which is spec.md 7's NotSupported. There is no state in this layer for them to change.
- `release_utils.py` and `timestamp.py`. These are file-I/O scripts.

## Plan

1. Done: the store contract, the sync reader and its filtered view, metadata keys, the async iteration cursor.
2. Done: slicing and chains of slices; summaries and the shared count memo; the async `filtered_by_fields`.
3. Record reads through slices in the reader model.
4. Done: the abstract `RecordSource` contract, with `PyVRSReader` shown to refine it.
5. Done: liveness of async loops under stated fairness; `get_timestamp_list` and the timestamp/item agreement; block lists.
6. Done: the async readers' `__getitem__` and the async slice, composed with the iteration cursor.
7. Done: several asyncio tasks interleaving at their awaits, with the IndexError of an out-of-range read; the readers' `n_records`, `record_types` and timestamp bounds against the records they read.
