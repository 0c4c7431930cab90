----------------------------- MODULE MetadataKeys -----------------------------
(***************************************************************************)
(* utils.stringify_metadata_keys: the pass that turns one metadata block,  *)
(* a dict from (name, type) pairs to values, into a dict from unique       *)
(* string keys to values.  One step is one iteration of its loop over the  *)
(* entries, in the dict's insertion order.                                 *)
(*                                                                         *)
(* A key is the string it builds, kept as its parts: a bare name is <<n>>, *)
(* and name + "<"*i + type + ">"*i is Bracket(name, type, i).  Names with  *)
(* no brackets and the types are model values, so two keys are equal      *)
(* exactly when their strings are.  A name of a block may itself look like *)
(* name<type>, as in the repository's tests.                               *)
(* The value of the j-th entry is j, so that entries can be traced.        *)
(***************************************************************************)
EXTENDS Integers, Sequences, FiniteSets, Functions, TLC

CONSTANTS
  Names,        \* entry names (keys in the form above)
  TypeNames,    \* entry type names
  MaxEntries    \* the largest metadata block considered

ASSUME MaxEntries \in Nat

VARIABLES
  entries,         \* the block: a sequence of distinct (name, type) pairs
  k,               \* the loop's position in entries
  filtered,        \* the output dict: key -> value
  ambiguous_names, \* names already seen with two types
  removed_types,   \* name -> type of the entry stored under the bare name
  status           \* "running", "done", or the exception that escaped

vars == <<entries, k, filtered, ambiguous_names, removed_types, status>>

Bracket(name, type, i) == name \o <<type, i>>

(* _unique_string_for_key: the first of name<type>, name<<type>>, ... that *)
(* is not yet a key of the dict (the loop ends: the dict is finite).      *)
RECURSIVE UniqueFrom(_, _, _, _)
UniqueFrom(name, type, keys, i) ==
  IF Bracket(name, type, i) \notin keys THEN Bracket(name, type, i)
  ELSE UniqueFrom(name, type, keys, i + 1)

(* A key builder whose bracket count starts at zero *)
UniqueStringForKeyFromZero(name, type, keys) == UniqueFrom(name, type, keys, 0)

(* A key builder that never escalates past name<type> *)
UniqueStringForKeyFirstOnly(name, type, keys) == Bracket(name, type, 1)

UniqueStringForKey(name, type, keys) == UniqueFrom(name, type, keys, 1)

(* dict assignment and dict.pop *)
Put(f, key, v) == (key :> v) @@ f
Pop(f, key) == [x \in DOMAIN f \ {key} |-> f[x]]

Blocks ==
  UNION { { s \in [1 .. n -> Names \X TypeNames] :
              \A i, j \in 1 .. n : i # j => s[i] # s[j] }
          : n \in 0 .. MaxEntries }

Init ==
  /\ entries \in Blocks
  /\ k = 1
  /\ filtered = <<>>
  /\ ambiguous_names = {}
  /\ removed_types = <<>>
  /\ status = "running"

Name == entries[k][1]
Type == entries[k][2]

(* The name is already overloaded: store it under name<type>. *)
StoreAmbiguous ==
  /\ status = "running" /\ k <= Len(entries)
  /\ Name \in ambiguous_names
  /\ filtered' = Put(filtered, UniqueStringForKey(Name, Type, DOMAIN filtered), k)
  /\ k' = k + 1
  /\ UNCHANGED <<entries, ambiguous_names, removed_types, status>>

(* A first collision that forgets to mark the name as ambiguous *)
StoreFirstCollisionUnmarked ==
  /\ status = "running" /\ k <= Len(entries)
  /\ Name \notin ambiguous_names
  /\ Name \in DOMAIN filtered
  /\ IF Name \notin DOMAIN removed_types
       THEN /\ status' = "KeyError"
            /\ filtered' = Pop(filtered, Name)
            /\ UNCHANGED <<k, ambiguous_names, removed_types>>
       ELSE LET f1 == Pop(filtered, Name)
                f2 == Put(f1, UniqueStringForKey(Name, removed_types[Name],
                                                 DOMAIN f1), filtered[Name])
            IN  /\ filtered' = Put(f2, UniqueStringForKey(Name, Type, DOMAIN f2), k)
                /\ removed_types' = Pop(removed_types, Name)
                /\ k' = k + 1
                /\ UNCHANGED <<ambiguous_names, status>>
  /\ UNCHANGED entries

(* First collision: pop the bare entry and its type, store both entries   *)
(* under name<type> keys, and mark the name ambiguous.  removed_types.pop  *)
(* raises KeyError when the bare key was not stored under this name.       *)
StoreFirstCollision ==
  /\ status = "running" /\ k <= Len(entries)
  /\ Name \notin ambiguous_names
  /\ Name \in DOMAIN filtered
  /\ IF Name \notin DOMAIN removed_types
       THEN /\ status' = "KeyError"
            /\ filtered' = Pop(filtered, Name)
            /\ UNCHANGED <<k, ambiguous_names, removed_types>>
       ELSE LET oldValue == filtered[Name]
                oldType == removed_types[Name]
                f1 == Pop(filtered, Name)
                f2 == Put(f1, UniqueStringForKey(Name, oldType, DOMAIN f1),
                          oldValue)
            IN  /\ filtered' = Put(f2, UniqueStringForKey(Name, Type, DOMAIN f2), k)
                /\ removed_types' = Pop(removed_types, Name)
                /\ ambiguous_names' = ambiguous_names \cup {Name}
                /\ k' = k + 1
                /\ UNCHANGED status
  /\ UNCHANGED entries

(* The name is new: store it bare and remember its type. *)
StoreBare ==
  /\ status = "running" /\ k <= Len(entries)
  /\ Name \notin ambiguous_names
  /\ Name \notin DOMAIN filtered
  /\ filtered' = Put(filtered, Name, k)
  /\ removed_types' = Put(removed_types, Name, Type)
  /\ k' = k + 1
  /\ UNCHANGED <<entries, ambiguous_names, status>>

Return ==
  /\ status = "running" /\ k > Len(entries)
  /\ status' = "done"
  /\ UNCHANGED <<entries, k, filtered, ambiguous_names, removed_types>>

Next == StoreAmbiguous \/ StoreFirstCollision \/ StoreBare \/ Return

Spec == Init /\ [][Next]_vars

-----------------------------------------------------------------------------
Keys == Names \cup { Bracket(n, t, i) : n \in Names, t \in TypeNames,
                                         i \in 1 .. MaxEntries + 1 }

TypeOK ==
  /\ entries \in Blocks
  /\ k \in 1 .. MaxEntries + 1
  /\ DOMAIN filtered \subseteq Keys /\ Range(filtered) \subseteq 1 .. MaxEntries
  /\ ambiguous_names \subseteq Names
  /\ status \in {"running", "done", "KeyError"}

(* No entry is lost or stored twice: unless an exception escapes, the      *)
(* output holds exactly one key per entry processed so far (the spec: the  *)
(* output size equals the input entry count).                              *)
NoEntryLost ==
  status # "KeyError" =>
    /\ Cardinality(DOMAIN filtered) = k - 1
    /\ Range(filtered) = 1 .. (k - 1)

(* The key of each entry: a name used by one entry stays bare; every entry *)
(* of a name used with several types is under some name<...type...> key.   *)
KeysFollowRules ==
  status = "done" =>
    \A j \in 1 .. Len(entries) :
      LET n == entries[j][1]
          t == entries[j][2]
          shared == \E m \in 1 .. Len(entries) : m # j /\ entries[m][1] = n
      IN  IF shared THEN \E i \in 1 .. MaxEntries + 1 :
                           Bracket(n, t, i) \in DOMAIN filtered
                           /\ filtered[Bracket(n, t, i)] = j
          ELSE n \in DOMAIN filtered /\ filtered[n] = j

(* stringify_metadata_keys returns for every metadata block. *)
NeverRaises == status # "KeyError"
=============================================================================
