----------------------------- MODULE MCDevicePath -----------------------------
(***************************************************************************)
(* DevicePath with two mirrors: one kind of source after the other for     *)
(* what happens there, and a network port with what happens at mirrors;    *)
(* and the line assembler, which the session feeds with what is heard.     *)
(***************************************************************************)
EXTENDS DevicePath, LineAssembler

CONSTANTS m1, m2
MCMirrors == {m1, m2}

NoMirror(source, numbered, history, says, things) ==
  [kind |-> source, serial |-> numbered, replays |-> history, group |-> "absent", merge |-> "raw",
   drains |-> {}, types |-> {}, speaks |-> says, does |-> things]
Mirrored(source, mode, draining, typing, says, things) ==
  [kind |-> source, serial |-> FALSE, replays |-> FALSE, group |-> "running", merge |-> mode,
   drains |-> draining, types |-> typing, speaks |-> says, does |-> things]

MCUses ==
  { NoMirror("socket", FALSE, FALSE, 2, {"write", "break", "refuse"}),
    NoMirror("socket", FALSE, TRUE, 2, {"break"}),
    NoMirror("telnet", FALSE, FALSE, 1, {"DO", "DONT", "write"}),
    NoMirror("telnet", FALSE, FALSE, 1, {"WILL", "WONT", "break"}),
    NoMirror("ssh", FALSE, FALSE, 2, {"write", "break"}),
    NoMirror("uart", TRUE, FALSE, 1, {"unplug"}),
    NoMirror("uart", FALSE, FALSE, 2, {"unplug", "guest"}),
    Mirrored("url", "raw", {m1}, {}, 4, {}),
    Mirrored("url", "raw", {m1}, {}, 2, {"stop"}),
    Mirrored("url", "raw", {m1}, {m1}, 2, {}),
    Mirrored("url", "raw", {m2}, {m1}, 0, {"break"}),
    Mirrored("socket", "raw", {}, {m1}, 0, {"write"}),
    Mirrored("url", "line", {}, {m1, m2}, 0, {}),
    Mirrored("url", "raw", {}, {m1}, 1, {"stop"}) }

\* A proxy that takes what it is sent slowly.
MCCongestedUses == {NoMirror("socket", FALSE, FALSE, 0, {"write"})}

\* Every stream of up to six bytes, an \r, a \n or neither each, however it is cut in two.
ASSUME LinesAssumption == \A stream \in BoundedSeq({CR, LF, 97}, 6) : ChunksDoNotMatter(stream)
=============================================================================
