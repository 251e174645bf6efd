------------------------------ MODULE MCDivert ------------------------------
(***************************************************************************)
(* Instances of AASunDivert: the rules of two forcings.                    *)
(***************************************************************************)
EXTENDS AASunDivert, TLC

Plain(c, m) == [NoRule EXCEPT !.channel = c, !.mode = m]

Ssr1  == Plain(0, "std")
Ssr2  == Plain(1, "std")
Relay == Plain(2, "std")

(* Timed rules of a relay: the one of higher priority displaces the other. *)
BurstDmin == [Relay EXCEPT !.limit = "dmin", !.delay = 2, !.burst = TRUE, !.ratio = 1]
Dmax      == [Relay EXCEPT !.limit = "dmax", !.delay = 4, !.burst = TRUE, !.ratio = Period]
Automaton == [Plain(2, "auto") EXCEPT !.autoOn = 2, !.autoOff = 1, !.autoKf = 4]

EachSsr == (0 :> Ssr1 @@ 1 :> Ssr2)
Timed   == (0 :> BurstDmin @@ 1 :> Dmax)

SsrRules   == {Ssr1, Ssr2}
RelayRules == {BurstDmin, Dmax, Automaton}
=============================================================================
