----------------------------- MODULE MCCopPulse -----------------------------
(* CopPulse with four pulses: enough for a stale alarm number, a pulse     *)
(* that is prolonged, and one after the pattern went off.                  *)
EXTENDS CopPulse

=============================================================================
