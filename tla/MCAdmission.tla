---------------------------- MODULE MCAdmission ----------------------------
(* Small instances of Admission.                                           *)
EXTENDS Admission, TLC

Own(path, memory) == [owns |-> {path}, depends_on |-> {}, cpu |-> 1, memory |-> memory]

(* Three scheduled tasks of one repository: t1 and t2 own overlapping      *)
(* paths, t3 owns a path of its own and does not fit beside t2.  The fourth*)
(* task declares nothing, except in MCWideConfig, where it fits beside t1  *)
(* and t3 together.                                                        *)
MCConfig ==
    "t1" :> Own(<<"a", "**">>, 1) @@ "t2" :> Own(<<".", "a", "b">>, 2) @@ "t3" :> Own(<<"c">>, 2)

MCWideConfig ==
    "t2" :> Own(<<".", "a", "b">>, 3) @@ "t4" :> Own(<<"d">>, 1) @@ MCConfig

\* t3 waits for t1.
MCDependentConfig == [MCConfig EXCEPT !["t3"].depends_on = {"t1"}]

MCScheduled == {"t1", "t2", "t3"}
MCTask      == {"t1", "t2", "t3", "t4"}
MCRepoOf    == "t1" :> "repo" @@ "t2" :> "repo" @@ "t3" :> "repo" @@ "t4" :> "repo"
TaskOfAll   == "r1" :> "t1" @@ "r2" :> "t2" @@ "r3" :> "t3" @@ "r4" :> "t4"

MCTaskOf    == [r \in Run |-> TaskOfAll[r]]

MCTwice      == [r \in Run |-> 2]
MCFirstTwice == [r \in Run |-> IF r = "r1" THEN 2 ELSE 1]

Symmetry == Permutations(Worker)

=============================================================================
