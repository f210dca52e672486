------------------------------- MODULE GameHost -------------------------------
(***************************************************************************)
(* What an Android host promises the game it runs, whatever callbacks and  *)
(* threads it is built from: the game is awake only while it is shown, it  *)
(* runs once at a time, hiding it puts it to sleep, and the host goes away *)
(* only when no game is left running.  SDLActivity implements it.          *)
(***************************************************************************)

VARIABLES
  game,    \* no game, one that draws, or one told to pause
  shown,   \* the host is in the foreground with a surface
  played,  \* some game has ended
  host     \* the process of the host

vars == <<game, shown, played, host>>

TypeOK ==
  /\ game \in {"none", "awake", "asleep"} /\ shown \in BOOLEAN
  /\ played \in BOOLEAN /\ host \in {"up", "down"}

Init == game = "none" /\ shown = FALSE /\ played = FALSE /\ host = "up"

\* Coming to the foreground starts the game, or wakes the one there is.  Once
\* a game has ended the promise is weaker: the host is on its way down, and may
\* start another one or not, awake or not.
Show ==
  /\ host = "up" /\ ~shown
  /\ shown' = TRUE
  /\ \/ game' = "awake"
     \/ played /\ game = "none" /\ game' \in {"none", "asleep"}
  /\ UNCHANGED <<played, host>>

Hide ==
  /\ host = "up" /\ shown
  /\ shown' = FALSE
  /\ game' = IF game = "none" THEN "none" ELSE "asleep"
  /\ UNCHANGED <<played, host>>

\* The game returns by itself or because it was told to quit.
End ==
  /\ host = "up" /\ game # "none"
  /\ game' = "none" /\ played' = TRUE
  /\ UNCHANGED <<shown, host>>

Close ==
  /\ host = "up" /\ game = "none"
  /\ host' = "down"
  /\ UNCHANGED <<game, shown, played>>

Next == Show \/ Hide \/ End \/ Close
Spec == Init /\ [][Next]_vars

\* What the contract comes to: a game that is awake is on screen, and no game
\* outlives its host.
AwakeOnlyShown == /\ game = "awake" => shown
                  /\ host = "down" => game = "none"
=============================================================================
