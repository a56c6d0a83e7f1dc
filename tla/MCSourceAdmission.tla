-------------------------- MODULE MCSourceAdmission --------------------------
(* Two admission ids: twins of one command, a command that reuses the id   *)
(* of another, and one that brings the same artifact into another world.   *)
EXTENDS SourceAdmission, TLC

CONSTANTS client1, client2, world1, world2, head1, head2,
          art, revn, adm1, adm2, body1, body2

Admit(m, w, h, ab, rb) ==
    [adm |-> m, world |-> w, expected |-> h, artifact |-> art, revision |-> revn,
     artifactBody |-> ab, revisionBody |-> rb]

MCCommands == {Admit(adm1, world1, head1, body1, body1),
               Admit(adm1, world1, head2, body1, body1),
               Admit(adm2, world1, head1, body2, body1),
               Admit(adm2, world2, head1, body1, body1)}

MCPuts == {[kind |-> "artifact", id |-> art,
            record |-> [world |-> world1, current |-> revn, body |-> body1]],
           [kind |-> "revision", id |-> revn, record |-> [artifact |-> art, body |-> body1]]}
=============================================================================
