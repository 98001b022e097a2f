---------------------------- MODULE MCGitStatus ----------------------------
(* Instances of GitStatus.  A is a directory of a repository, S one below  *)
(* it, B one of a repository with no index yet, and N is in none.          *)
EXTENDS GitStatus

CONSTANTS A, S, B, N, RA, RB, Left, Right

OneColumn == {Left}
TwoColumns == {Left, Right}

AllDirs == {A, S, B, N}
RepoOfDir == [d \in AllDirs |-> CASE d \in {A, S} -> RA [] d = B -> RB [] d = N -> None]
UnderDir == [d \in AllDirs |-> IF d = A THEN {A, S} ELSE {d}]

\* Across repositories, one with no index, and out of any.
Apart == {A, B, N}
ApartRepo == [d \in Apart |-> RepoOfDir[d]]
ApartUnder == [d \in Apart |-> {d}]
ApartKey == [r \in {RA, RB} |-> IF r = RA THEN 1 ELSE 0]

\* In one repository, and out of it.
InOut == {A, N}
InOutRepo == [d \in InOut |-> RepoOfDir[d]]
InOutUnder == [d \in InOut |-> {d}]
InOutKey == [r \in {RA} |-> 1]

OnlyRA == {RA}
Either == BOOLEAN
Never == {FALSE}
=============================================================================
