------------------------------ MODULE MCSystem -------------------------------
(***************************************************************************)
(* TLC instance of System: two pages, two channels, the positions whose    *)
(* bytes are 0 and 253 (on the first channel a special red).  A third user *)
(* sends what a page never does: broken frames, frames too short for their *)
(* payload, other commands and types, and answers through other topics.    *)
(***************************************************************************)
EXTENDS System, TLC

CONSTANTS c00, c09, c90, c99

Payload == {c00, c09, c90, c99}
PayloadBytes == c00 :> <<0, 0>>   @@ c09 :> <<0, 253>> @@
                c90 :> <<253, 0>> @@ c99 :> <<253, 253>>
Switch(arg) == PageFrame("switch", arg)
StrayFrames ==
  { [PageFrame("rgb", c90) EXCEPT !.seq = 2], PageFrame("rgb", Absent),
    Switch("other"), Switch(Absent), [Switch("on") EXCEPT !.type = "unknown"],
    [Switch("on") EXCEPT !.cmd = "unknown"] } \cup
  { [PageFrame("rgb", c99) EXCEPT !.shape = s] : s \in {"badHead", "badBcc"} }
AllFrames == StrayFrames \cup {PageFrame("rgb", c) : c \in Payload}
                        \cup {Switch("on"), Switch("off")}
==============================================================================
