-------------------------------- MODULE Ticker --------------------------------
(***************************************************************************)
(* What a sink expects of its scheduler: the callback comes again and      *)
(* again between start and stop, and outside of them only if a stop has    *)
(* been overrun.                                                           *)
(***************************************************************************)
VARIABLES
    on,      \* from the beginning of start to the end of stop
    overrun, \* a stop has returned although the callback may still come
    tick     \* changes with each callback

vars == <<on, overrun, tick>>

Init == on = FALSE /\ overrun = FALSE /\ tick \in BOOLEAN

TurnOn  == ~ on /\ on' = TRUE /\ UNCHANGED <<overrun, tick>>
TurnOff == on /\ on' = FALSE /\ overrun' \in {overrun, TRUE} /\ UNCHANGED tick
Tick    == (on \/ overrun) /\ tick' = ~ tick /\ UNCHANGED <<on, overrun>>

Next == TurnOn \/ TurnOff \/ Tick

Spec == Init /\ [][Next]_vars
LiveSpec == Spec /\ WF_vars(on /\ Tick)
=============================================================================
