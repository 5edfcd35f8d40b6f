---------------------------- MODULE RunControlMC ----------------------------
(***************************************************************************)
(* Two cores that hang off the collective bit and have a bit of their own  *)
(* (as in "duo") and one with only its own (the third core of "trio").     *)
(***************************************************************************)
EXTENDS RunControl, TLC

Own == [c \in 0 .. 2 |-> {<<"core0_run", "core1_run", "cva6_run">>[c + 1]}]
Release == [c \in 0 .. 2 |-> IF c = 2 THEN Own[c] ELSE Own[c] \cup {"core_run"}]
OneProtocol == [c \in 0 .. 2 |-> "ntrace"]
TwoProtocols == [c \in 0 .. 2 |-> IF c = 2 THEN "etrace" ELSE "ntrace"]
Scenarios == {OneProtocol, TwoProtocols}
Leftovers == {{}, {"core1_run"}, {"core_run", "cva6_run"}}
Armed == [act |-> TRUE, en |-> TRUE, it |-> TRUE, fields |-> FALSE, src |-> FALSE, ovf |-> FALSE]
OneArmed == {[e \in {"enc", "enc1"} |-> IF e = "enc" THEN Armed ELSE EncOff]}
BothImages == <<0, 1>>
TwoEncoders == <<"enc", "enc1">>
EncoderOf == [c \in 0 .. 2 |-> IF c = 0 THEN "enc" ELSE "enc1"]
AllKinds == Ctl \cup {"load", "load_cva6", "window", "features"}
Interchangeable == Permutations(Threads)
=============================================================================
