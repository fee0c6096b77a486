----------------------------- MODULE FieldStore -----------------------------
(***************************************************************************)
(* What StateManager promises to its callers (pkg/state/state.go), however *)
(* many of them save at once.  The persistent state is a set of fields. A  *)
(* save takes a copy of it, changes its own field in the copy, and writes  *)
(* the copy back, perhaps in parts.  The copy is the state as it stood at  *)
(* one moment of the save; it may be a guess only while nothing has been   *)
(* read or written with success since the start or the last failed save.   *)
(* A save that succeeds leaves exactly its copy.  A crash drops the saves  *)
(* under way.                                                              *)
(***************************************************************************)
CONSTANTS Field, Value, Empty, Saver, NoSave

VARIABLES
  stored,   \* what a reader would find in each field
  saving,   \* the save each caller has under way
  copy,     \* the state it will write, once taken
  fresh     \* what the process last knew of the store is still so

storeVars == <<stored, saving, copy, fresh>>

Init == /\ stored = [f \in Field |-> Empty]
        /\ saving = [s \in Saver |-> NoSave]
        /\ copy = [s \in Saver |-> NoSave]
        /\ fresh = FALSE

Begin(s) == /\ saving[s] = NoSave
            /\ \E f \in Field, v \in Value :
                 saving' = [saving EXCEPT ![s] = [field |-> f, value |-> v]]
            /\ UNCHANGED <<stored, copy, fresh>>

TakeFrom(state, s) ==
  /\ saving[s] # NoSave /\ copy[s] = NoSave
  /\ copy' = [copy EXCEPT
                ![s] = [state EXCEPT ![saving[s].field] = saving[s].value]]
  /\ UNCHANGED <<stored, saving>>

Take(s) == TakeFrom(stored, s) /\ fresh' \in {fresh, TRUE}

Guess(s) == /\ ~fresh /\ UNCHANGED fresh
            /\ \E state \in [Field -> Value] : TakeFrom(state, s)

With(part, s) == [f \in Field |-> IF f \in part THEN copy[s][f] ELSE stored[f]]

Store(s) == /\ copy[s] # NoSave
            /\ \E part \in SUBSET Field : stored' = With(part, s)
            /\ UNCHANGED <<saving, copy, fresh>>

Ends(s) == /\ copy[s] # NoSave
           /\ saving' = [saving EXCEPT ![s] = NoSave]
           /\ copy' = [copy EXCEPT ![s] = NoSave]

Succeed(s) == Ends(s) /\ stored' = copy[s] /\ fresh' = TRUE

Fail(s) == /\ Ends(s)
           /\ \/ UNCHANGED <<stored, fresh>>
              \/ /\ \E part \in SUBSET Field : stored' = With(part, s)
                 /\ fresh' = FALSE

Read == fresh' = TRUE /\ UNCHANGED <<stored, saving, copy>>

Crash == /\ saving' = [s \in Saver |-> NoSave]
         /\ copy' = [s \in Saver |-> NoSave]
         /\ fresh' = FALSE
         /\ UNCHANGED stored

Next == \/ Read \/ Crash
        \/ \E s \in Saver : \/ Begin(s) \/ Take(s) \/ Guess(s)
                            \/ Store(s) \/ Succeed(s) \/ Fail(s)

Spec == Init /\ [][Next]_storeVars
=============================================================================
