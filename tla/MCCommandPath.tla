--------------------------- MODULE MCCommandPath -----------------------------
(***************************************************************************)
(* TLC instances of CommandPath.  The frames cover every path of the       *)
(* parser; two users and two values of the sequence byte are enough to     *)
(* tell one request from another.                                          *)
(***************************************************************************)
EXTENDS CommandPath

CONSTANTS s1, s2, red, dark

RgbFrame(s, c) == [shape |-> "good", cmd |-> "control", type |-> "rgb", seq |-> s, arg |-> c]
SwitchFrame(s, a) == [shape |-> "good", cmd |-> "control", type |-> "switch", seq |-> s, arg |-> a]

AllFrames ==
  { RgbFrame(s1, red), RgbFrame(s2, dark), RgbFrame(s1, Absent),
    [RgbFrame(s2, red) EXCEPT !.shape = "badBcc"],
    [RgbFrame(s1, dark) EXCEPT !.shape = "badHead"],
    [RgbFrame(s1, dark) EXCEPT !.shape = "badLength"],
    [SwitchFrame(s1, "on") EXCEPT !.cmd = "unknown"],
    SwitchFrame(s1, "on"), SwitchFrame(s2, "off"),
    SwitchFrame(s1, "other"), SwitchFrame(s1, Absent),
    [SwitchFrame(s2, "on") EXCEPT !.type = "unknown"] }

SwitchFrames == {f \in AllFrames : f.type = "switch" /\ f.cmd = "control"}

(* For two tasks: one frame of each outcome.                               *)
MixedFrames ==
  { RgbFrame(s1, red), [RgbFrame(s2, red) EXCEPT !.shape = "badBcc"],
    [SwitchFrame(s1, "on") EXCEPT !.cmd = "unknown"], SwitchFrame(s2, "on"),
    [RgbFrame(s1, dark) EXCEPT !.shape = "badHead"] }
==============================================================================
