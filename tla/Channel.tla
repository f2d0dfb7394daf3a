------------------------------- MODULE Channel --------------------------------
(***************************************************************************)
(* One channel of the sound chip: its registers (aica_write_channel,       *)
(* aica_start_stop_channels in src/src/aica/aica.c), and its position as   *)
(* it is mixed (audio_mix_samples in audio.c).  The samples themselves,    *)
(* the volume and the rate are left out: a mix moves the channel by as many*)
(* positions as it may.                                                    *)
(***************************************************************************)
EXTENDS Integers

CONSTANTS
  Ends,           \* values of the registers of a loop's start and the end
  MaxSteps,       \* positions that a channel moves in one mix, at most
  MaxPosn         \* bound on the position of a channel that has lost its end

ChannelAssumption == Ends \subseteq Nat /\ \A e \in Ends : e + MaxSteps <= MaxPosn

VARIABLES
  chn,            \* start, end, posn, loop and active of the channel, and
                  \* key, bit 14 of its first register
  strayed         \* history: registers moved under the channel as it played

vars == <<chn, strayed>>

-----------------------------------------------------------------------------
(* Definitions marked "Faulty" are variants of the one that follows; the   *)
(* specification does not use them.  They show that a property can fail.   *)

(* The channel moves by one position.  When it meets the end it goes round *)
(* or stops.  Faulty: when it has passed the end.                          *)
StepPast(c) ==
  LET p == c.posn + 1
  IN  CASE p # c.end + 1 -> [c EXCEPT !.posn = p]
        [] c.loop = "off" -> [c EXCEPT !.posn = p, !.active = FALSE]
        [] OTHER -> [c EXCEPT !.posn = c.start, !.loop = "looped"]
Step(c) ==
  LET p == c.posn + 1
  IN  CASE p # c.end -> [c EXCEPT !.posn = p]
        [] p = c.end /\ c.loop = "off" -> [c EXCEPT !.posn = p, !.active = FALSE]
        [] OTHER -> [c EXCEPT !.posn = c.start, !.loop = "looped"]

Mixed(c, n) ==
  LET After[i \in 0 .. n] == IF i = 0 THEN c
                             ELSE IF After[i - 1].active THEN Step(After[i - 1])
                             ELSE After[i - 1]
  IN  After[n]

(* audio_start_stop_channel: a channel that is on is not started again.    *)
Keyed(c) ==
  CASE c.key /\ ~c.active -> [c EXCEPT !.active = TRUE, !.posn = 0]
    [] ~c.key -> [c EXCEPT !.active = FALSE]
    [] OTHER -> c

Outside(c) == c.active /\ c.posn >= c.end

(* A channel cannot meet its end any more, or not after it has gone round. *)
Misses(c) == Outside(c) \/ (c.active /\ c.loop # "off" /\ c.start >= c.end)

(* A register write leaves the channel as c.                               *)
Rewritten(c) == chn' = c /\ strayed' = (c.active /\ (strayed \/ Misses(c)))

-----------------------------------------------------------------------------
Init ==
  /\ chn = [start |-> 0, end |-> 0, posn |-> 0, loop |-> "off", key |-> FALSE,
            active |-> FALSE]
  /\ strayed = FALSE

(* audio_mix_samples, for this channel.                                    *)
Mix(n) ==
  /\ chn.posn + n <= MaxPosn
  /\ chn' = Mixed(chn, n)
  /\ strayed' = (strayed /\ chn'.active)

(* The first register: looping and the key.  With the highest bit written  *)
(* all channels are looked at (aica_start_stop_channels).                  *)
WriteConfig(loop, key, now) ==
  LET c == [chn EXCEPT !.loop = loop, !.key = key]
  IN  Rewritten(IF now THEN Keyed(c) ELSE c)

(* The same for the sake of another channel.                               *)
KeyOthers == Rewritten(Keyed(chn))

WriteEnds(s, e) == Rewritten([chn EXCEPT !.start = s, !.end = e])

(* A read of AICA_CHANSTATE tells once that the channel went round.        *)
ReadState ==
  /\ chn.loop = "looped"
  /\ chn' = [chn EXCEPT !.loop = "on"]
  /\ UNCHANGED strayed

Next ==
  \/ \E n \in 1 .. MaxSteps : Mix(n)
  \/ \E loop \in {"off", "on"}, key, now \in BOOLEAN : WriteConfig(loop, key, now)
  \/ \E s, e \in Ends : WriteEnds(s, e)
  \/ KeyOthers \/ ReadState

Spec == Init /\ [][Next]_vars

-----------------------------------------------------------------------------
(* The types of the variables.                                             *)
TypeOK ==
  /\ chn \in [start : Ends \cup {0}, end : Ends \cup {0}, posn : 0 .. MaxPosn,
              loop : {"off", "on", "looped"}, key : BOOLEAN, active : BOOLEAN]
  /\ strayed \in BOOLEAN

(* A channel plays nothing from its end on, over any number of positions a *)
(* mix moves it by, rounds and restarts, unless its registers were moved   *)
(* so that the position could not meet the end any more: the end is tested *)
(* for equality only.  (audio_mix_samples, aica_write_channel)             *)
StaysInside == Outside(chn) => strayed
=============================================================================
