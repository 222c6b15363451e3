----------------------------- MODULE MCOutbound -----------------------------
(***************************************************************************)
(* Instances of Outbound for TLC.                                          *)
(***************************************************************************)
EXTENDS Outbound, Waveform, TLC

CONSTANTS r1, r2, r3

\* The bars drawn for a voice message say something of every short recording.
ASSUME BarsAreRight == BarsShowAmplitudes

Mix(k1, k2, k3) == r1 :> k1 @@ r2 :> k2 @@ r3 :> k3

\* Three tasks for one worker and the ways around it; every other way of a request.
Flow == {Mix("image", "image", "image"), Mix("audio", "document", "statusImage"),
         Mix("image", "presence", "read"), Mix("text", "statusText", "statusAudio")}
Phone == [digits |-> 13, zero |-> FALSE, group |-> FALSE]
Addresses == {Phone, [Phone EXCEPT !.digits = 15], [Phone EXCEPT !.group = TRUE]}

\* Two requests of one kind.
Documents == {r1 :> "document" @@ r2 :> "document"}
Presences == {r1 :> "presence" @@ r2 :> "presence"}
Phones == {Phone}
=============================================================================
