-------------------------- MODULE MCConfigDelivery --------------------------
(* ConfigDelivery for TLC: a change of every kind, and both kinds of refusal. *)
EXTENDS ConfigDelivery

Write(cap, model, port, flaw) == [cap |-> cap, model |-> model, port |-> port, flaw |-> flaw]
MCBoot == Write(1, 1, 1, "none")
MCContents == {MCBoot, Write(2, 1, 1, "none"), Write(2, 2, 1, "none"),
               Write(1, 1, 2, "none"), Write(1, 2, 1, "unfit"), Write(1, 1, 1, "bad")}
=============================================================================
