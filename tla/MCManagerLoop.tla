--------------------------- MODULE MCManagerLoop ---------------------------
(***************************************************************************)
(* Deployments of ManagerLoop that use one part of the main loop each.     *)
(***************************************************************************)
EXTENDS ManagerLoop

Nothing == [register |-> FALSE, token |-> FALSE, renew |-> FALSE, probes |-> {}, rejects |-> 0,
            snapshots |-> {}, nacks |-> 0, troubles |-> 2]

OnePartEach ==
    { [Nothing EXCEPT !.register = TRUE, !.troubles = 1],
      [Nothing EXCEPT !.register = TRUE, !.token = TRUE],
      [Nothing EXCEPT !.renew = TRUE],
      [Nothing EXCEPT !.probes = Probes, !.troubles = 1],
      [Nothing EXCEPT !.rejects = MaxEvents],
      [Nothing EXCEPT !.snapshots = {1}, !.nacks = 1, !.troubles = 1],
      [Nothing EXCEPT !.snapshots = Transfers, !.troubles = 0] }

TwoTransfers == {1, 2}
LongAndShort == <<3, 1>>
=============================================================================
