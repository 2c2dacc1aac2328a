--------------------------------- MODULE MCTeam ---------------------------------
(* Two agents, together or one of them alone in the roster, in which case an    *)
(* earlier container, with the other one too, may have left its markers.        *)
EXTENDS Team

Load(markers, rosters, faults, operations, snapshots, changes, endings, ticks) ==
  [markers |-> markers, rosters |-> rosters, faults |-> faults, operations |-> operations,
   snapshots |-> snapshots, changes |-> changes, endings |-> endings, ticks |-> ticks]

MCRosters == {{"a"}, {"a", "b"}}
Both == {{"a", "b"}}
Alone == {{"a"}}
MCWorkloads ==
  {Load({}, Both, 1, 1, 0, 0, 0, 0), Load({}, Alone, 1, 1, 0, 0, 3, 0), Load({"b"}, Alone, 0, 2, 1, 0, 0, 0),
   Load({}, Alone, 1, 0, 1, 0, 0, 1), Load({}, Alone, 0, 1, 1, 1, 0, 1), Load({}, Alone, 0, 0, 1, 1, 2, 0)}
=================================================================================
