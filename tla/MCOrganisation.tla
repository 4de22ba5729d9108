-------------------------- MODULE MCOrganisation --------------------------
(* Instances of Organisation for model checking. *)
EXTENDS Organisation

Interchangeable == Permutations(Users) \cup Permutations(Pods) \cup Permutations(Units)
                     \cup Permutations(Branches)
Both == {<<Recruiter, Admin>>, <<Custom>>}
NoRoles == {<<>>}
PlainRole == {<<>>, <<Recruiter>>}
=============================================================================
