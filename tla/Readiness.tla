----------------------------- MODULE Readiness -----------------------------
(***************************************************************************)
(* What a service profile is, which profiles and patches the domain model   *)
(* accepts (ServiceInput.Validate, ServicePatch.Validate), how a patch is   *)
(* applied, and what the golden-path checks make of a profile (Evaluate).   *)
(*                                                                          *)
(* A text is known by its class: "empty", "blank" (white space only),       *)
(* "junk" (some text that is neither an e-mail address nor an http(s) URL)  *)
(* or "good".  The SLO policy is one field: a patch replaces it whole.      *)
(***************************************************************************)
EXTENDS Integers

Text == {"empty", "blank", "junk", "good"}

LinkFields == {"owner", "repository", "runbook", "health", "observability"}
TextFields == {"description", "pipeline", "language", "lifecycle"}
FlagFields == {"ci", "tracing", "metrics"}
Fields == LinkFields \union TextFields \union FlagFields \union {"tier", "slo"}

SLOPolicy == [availability : Int, latency : Int, window : Text]

Service == [description : Text, owner : Text, repository : Text, runbook : Text,
            health : Text, observability : Text, pipeline : Text, language : Text,
            lifecycle : Text, ci : BOOLEAN, tracing : BOOLEAN, metrics : BOOLEAN,
            tier : Int, slo : SLOPolicy]

FieldValues(f) ==
  CASE f \in FlagFields -> BOOLEAN
    [] f = "tier"       -> Int
    [] f = "slo"        -> SLOPolicy
    [] OTHER            -> Text

\* What a decoded ServicePatch can be: values for some of the fields.
IsPatch(p) == DOMAIN p \subseteq Fields /\ \A f \in DOMAIN p : p[f] \in FieldValues(f)

----------------------------------------------------------------------------
(* Validation.                                                             *)

\* strings.TrimSpace(value) != ""
NotBlank(text) == text \in {"junk", "good"}

\* Faulty: only a malformed value is an error, a missing one is not.
ValidIfPresent(text) == text # "junk"

\* validateEmail and validateURL: not blank, and it parses.
ValidLink(text) == NotBlank(text) /\ text = "good"

\* SLOPolicyInput.Validate; 100 percent is allowed, 0 is not.
ValidSLO(slo) ==
  /\ 0 < slo.availability /\ slo.availability <= 100
  /\ 0 < slo.latency
  /\ NotBlank(slo.window)

ValidTier(tier) == 0 <= tier /\ tier <= 3

\* ServiceInput.Validate without the name.
ValidService(s) ==
  /\ NotBlank(s.description) /\ NotBlank(s.pipeline)
  /\ NotBlank(s.language) /\ NotBlank(s.lifecycle)
  /\ ValidLink(s.owner) /\ ValidLink(s.repository) /\ ValidLink(s.runbook)
  /\ ValidLink(s.health) /\ ValidLink(s.observability)
  /\ ValidTier(s.tier)
  /\ ValidSLO(s.slo)

\* Faulty: the SLO policy of a patch is not looked at.
ValidPatchButSLO(p) ==
  /\ DOMAIN p # {}
  /\ \A f \in DOMAIN p \intersect LinkFields : ValidLink(p[f])
  /\ \A f \in DOMAIN p \intersect TextFields : NotBlank(p[f])
  /\ "tier" \in DOMAIN p => ValidTier(p["tier"])

\* ServicePatch.Validate.  A patch is a function on the fields it carries: at
\* least one, each valid by itself; any value of a flag will do.
ValidPatch(p) ==
  /\ DOMAIN p # {}
  /\ \A f \in DOMAIN p \intersect LinkFields : ValidLink(p[f])
  /\ \A f \in DOMAIN p \intersect TextFields : NotBlank(p[f])
  /\ "tier" \in DOMAIN p => ValidTier(p["tier"])
  /\ "slo" \in DOMAIN p => ValidSLO(p["slo"])

\* Faulty: a flag the patch does not carry becomes false.
PatchedFlagsReset(s, p) ==
  [f \in Fields |-> IF f \in DOMAIN p THEN p[f]
                    ELSE IF f \in FlagFields THEN FALSE ELSE s[f]]

\* applyServicePatch
Patched(s, p) == [f \in Fields |-> IF f \in DOMAIN p THEN p[f] ELSE s[f]]

----------------------------------------------------------------------------
(* The golden-path checks.                                                 *)

\* One of the ten results: passIf fails, warnIf warns; either counts as 1.
Missing(ok) == IF ok THEN 0 ELSE 1

Failures(s) ==
  Missing(s.owner # "empty") + Missing(s.repository # "empty") + Missing(s.health # "empty")
  + Missing(s.ci) + Missing(s.pipeline # "empty")

Warnings(s) ==
  Missing(s.runbook # "empty") + Missing(s.observability # "empty")
  + Missing(s.tracing) + Missing(s.metrics)
  + Missing(s.slo.window # "empty" /\ s.slo.availability > 0 /\ s.slo.latency > 0)

Score(s) ==
  LET score == 100 - 30 * Failures(s) - 10 * Warnings(s)
  IN  IF score < 0 THEN 0 ELSE score

State(s) ==
  CASE Failures(s) > 0 -> "blocked"
    [] Failures(s) = 0 /\ Warnings(s) > 0 -> "degraded"
    [] OTHER -> "ready"
============================================================================
