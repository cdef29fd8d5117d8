------------------------------- MODULE FlatMan -------------------------------
(***************************************************************************)
(* The Flat-Man the emulator stands for, as a client may count on it.      *)
(* There is a light and a brightness for it; nothing is cached, and there  *)
(* is no dimmer that moves or answers late.                                *)
(*                                                                         *)
(* The panel is not the client's alone.  While it is "held" the responses  *)
(* speak of it and nothing else moves it.  Once it is "released" the light *)
(* stays as it is, but the next request finds the brightness forgotten if  *)
(* the light was off.  After a failed exchange the panel is "lost" until   *)
(* it is taken again.                                                      *)
(***************************************************************************)
EXTENDS Panel, IntenMap

CONSTANT Base       \* of the digits of a response

VARIABLES
    mode,       \* "held", "released" or "lost"
    glow,       \* intensity the panel shines with
    preset,     \* intensity it has, or will have, with the light on
    level,      \* the level that stands for preset
    asked,      \* has the client, or whoever had the panel before, asked
                \* for light?
    answer      \* the response just given, if one was

lamp == <<glow, preset, level, asked>>
lampVars == <<mode, lamp, answer>>

NoAnswer == [cmd |-> "none", arg |-> 0]

Init ==
    /\ mode = "released"
    /\ glow \in Intensity
    /\ answer = NoAnswer

Says(cmd, arg) == answer' = [cmd |-> cmd, arg |-> arg]
Silent == answer' = NoAnswer

-----------------------------------------------------------------------------
(* Requests, with the panel held.                                          *)

\* The level is told without its last digit.
Report ==
    /\ \/ Says("S", IF asked THEN 1 ELSE 0)
       \/ Says("J", level \div Base)
       \/ Says("V", 999)
    /\ UNCHANGED lamp

TurnOn ==
    /\ Says("L", 0)
    /\ glow' = preset /\ asked' = TRUE
    /\ UNCHANGED <<preset, level>>

TurnOff ==
    /\ Says("D", 0)
    /\ glow' = 0 /\ asked' = FALSE
    /\ UNCHANGED <<preset, level>>

\* The answer is for the number asked for, whose low byte is the level.  A light
\* that is off stays off, one at level 0 included, whatever was asked.
SetLevel ==
    /\ answer'.cmd = "B"
    /\ level' = answer'.arg % (MaxLvl + 1)
    /\ preset' = Clamp(usbd_val(level'))
    /\ glow' = IF glow > 0 THEN preset' ELSE 0
    /\ UNCHANGED asked

Serve == mode = "held" /\ mode' = "held" /\ (Report \/ TurnOn \/ TurnOff \/ SetLevel)

-----------------------------------------------------------------------------
(* Having the panel and not having it.                                     *)

\* Nothing is asked, or not in a way that is answered.
Ignore == mode # "lost" /\ Silent /\ UNCHANGED <<mode, lamp>>

\* Idle for too long, or the program ends.
Release == mode = "held" /\ mode' = "released" /\ Silent /\ UNCHANGED lamp

\* The panel is found as it is: asked for if it shines, with a level as near
\* as there is, or with the default brightness if it does not.
Found ==
    /\ asked = (glow > 0)
    /\ preset = IF glow > 0 THEN glow ELSE DefaultBrightness
    /\ Near(level, preset)

Take ==
    /\ mode # "held" /\ mode' = "held"
    /\ mode = "released" => glow' = glow
    /\ Silent
    /\ Found'

\* An exchange fails; the client gets no response.
Lose == mode # "lost" /\ mode' = "lost" /\ Silent

\* Nothing can be said until the panel is taken or let go.
Astray == mode = "lost" /\ mode' \in {"lost", "released"}

Next == Serve \/ Ignore \/ Release \/ Take \/ Lose \/ Astray

Spec == Init /\ [][Next]_lampVars
=============================================================================
