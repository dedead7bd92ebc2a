------------------------- MODULE MCPrestoReconciler -------------------------
(* Model values for PrestoReconciler.  Specs are built from a worker     *)
(* count, an autoscaling record and the steps whose builder fails.        *)
EXTENDS PrestoReconciler, TLC

(* Autoscaling records: disabled, enabled with two targets, enabled with  *)
(* a field left nil.                                                      *)
AsOff   == [enabled |-> FALSE, min |-> 1, max |-> 2, target |-> 50]
AsOn    == [enabled |-> TRUE,  min |-> 1, max |-> 2, target |-> 50]
AsOn70  == [enabled |-> TRUE,  min |-> 1, max |-> 2, target |-> 70]
AsNoMin == [enabled |-> TRUE,  min |-> None, max |-> 2, target |-> 50]
AsNoMin3 == [enabled |-> TRUE, min |-> None, max |-> 3, target |-> 50]

MkSpec(c, a, b) == [count |-> c, as |-> a, bad |-> b]

(* Liveness under edits: a count change, autoscaling switched on and off, *)
(* its target changed, a ConfigMap error.                                 *)
SpecsCore == {MkSpec(1, AsOff, {}), MkSpec(2, AsOff, {}), MkSpec(1, AsOn, {}),
              MkSpec(1, AsOn70, {}), MkSpec(1, AsOff, {"workerCM"})}

(* Liveness under store errors and restarts: a count change.              *)
SpecsCount == {MkSpec(1, AsOff, {}), MkSpec(2, AsOff, {})}

(* The HPA: switched on and off, its target changed.                      *)
SpecsHpa == {MkSpec(1, a, {}) : a \in {AsOff, AsOn, AsOn70}}

(* Builder errors at the other steps.                                     *)
SpecsBad == {MkSpec(1, AsOff, b) : b \in {{}, {"external"}, {"coordRS"},
                                            {"workerRS"}}}

(* An HPA field left nil after the HPA was created, with MaxReplicas     *)
(* unchanged and changed.                                                 *)
SpecsNil == {MkSpec(1, a, {}) : a \in {AsOn, AsNoMin, AsNoMin3}}

(* The same, and autoscaling switched off again.                          *)
SpecsNilOff == SpecsNil \cup {MkSpec(1, AsOff, {})}

(* A single spec, for the runs that find a violation.                   *)
SpecsOne == {MkSpec(1, AsOff, {})}

(* GenerateName yields at most two names; one where duplicates are not    *)
(* the question (a second create then waits for the cache).                *)
RSIdsTwo == {1, 2}
RSIdsOne == {1}

(* uuid.New() values are interchangeable.                                 *)
UuidSym == Permutations(Uuids)
=============================================================================
