------------------------------- MODULE Sources -------------------------------
(***************************************************************************)
(* Directories of the host and the authority they may be mounted with      *)
(* (mounts.py, authority.py, the source identities of project_run.py).     *)
(*                                                                         *)
(* A path is the sequence of its names.  The file system is a function     *)
(* `place' from the paths an operator may change to what is there: a       *)
(* directory with its device and inode, a symbolic link to another path,   *)
(* or nothing; every other path is an ordinary directory of its own.       *)
(***************************************************************************)
EXTENDS Integers, SequencesExt

Dir(inode) == [kind |-> "dir", inode |-> inode, to |-> <<>>]
Link(path) == [kind |-> "link", inode |-> 0, to |-> path]
Gone       == [kind |-> "none", inode |-> 0, to |-> <<>>]

\* Path.resolve: the links on the way are followed.  (A link leads to no other.)
Resolve(place, path) ==
  LET links == {p \in DOMAIN place : place[p].kind = "link" /\ IsPrefix(p, path)}
  IN IF links = {} THEN path
     ELSE LET p == CHOOSE q \in links : TRUE
          IN place[p].to \o SubSeq(path, Len(p) + 1, Len(path))

\* resolve(strict=True) and is_dir.
IsDirectory(place, path) ==
  \A p \in DOMAIN place : IsPrefix(p, Resolve(place, path)) => place[p].kind = "dir"

Inode(place, path) == IF path \in DOMAIN place THEN place[path].inode ELSE 0

\* A path that is its own resolution; state and DComp accept no other.
Canonical(place, path) == Resolve(place, path) = path /\ IsDirectory(place, path)

\* _source_identity: the path with its device and inode.
SourceIdentity(place, path) == [path |-> path, inode |-> Inode(place, path)]
CaptureSourceIdentities(place, paths) == {SourceIdentity(place, p) : p \in paths}

\* Mutant: the sources are not looked at again.
VerifyNothing(place, identities) == TRUE

VerifySourceIdentities(place, identities) ==
  \A s \in identities : Canonical(place, s.path) /\ SourceIdentity(place, s.path) = s

-----------------------------------------------------------------------------
PathsOverlap(left, right) == left = right \/ IsPrefix(left, right) \/ IsPrefix(right, left)

\* Both the resolved paths and the names themselves are compared.
Overlap(place, left, right) ==
  \/ PathsOverlap(Resolve(place, left), Resolve(place, right))
  \/ PathsOverlap(left, right)

Apart(place, lefts, rights) == \A p \in lefts, q \in rights : ~Overlap(place, p, q)
AllApart(place, paths) == \A p, q \in paths : p # q => ~Overlap(place, p, q)

\* Within one project every source is a tree of its own, away from the roots
\* that carry the host's authority.
ValidateMountAuthority(place, teams, mounts, protected) ==
  /\ AllApart(place, teams) /\ AllApart(place, mounts) /\ Apart(place, teams, mounts)
  /\ Apart(place, teams \cup mounts, protected)

\* Across projects: no team in a mount, and no root inside another; two
\* projects may use the very same directory.
ValidateTeamMountSeparation(place, teams, mounts) == Apart(place, teams, mounts)
ValidateStrictSourceRootSeparation(place, sources) == AllApart(place, sources)
==============================================================================
