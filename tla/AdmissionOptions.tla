--------------------------- MODULE AdmissionOptions ---------------------------
(***************************************************************************)
(* How the admission component starts: from its command line to the        *)
(* requirements that the Shoot validator is built with.                    *)
(*                                                                         *)
(*   raw       the values of --required-capability, in order               *)
(*   config    the completed configuration, NoConfig before                *)
(*   target    validator.DefaultAddOptions.RequiredCapabilities            *)
(*   required  what the registered validator requires, NoWebhook before    *)
(*   phase     "parse", "complete", "apply", "register", "serve" or "exit" *)
(***************************************************************************)
EXTENDS Tokens

CONSTANTS
    Values,    \* what a flag may be given, token by token
    NoConfig, NoWebhook,
    MaxFlags   \* bound on the number of flags

VARIABLES raw, config, target, required, phase

vars == <<raw, config, target, required, phase>>

Capability(name, value) == [name |-> name, value |-> value]
-------------------------------------------------------------------------------
Init ==
    /\ raw = <<>>
    /\ config = NoConfig
    /\ target = <<>>
    /\ required = NoWebhook
    /\ phase = "parse"

\* A string array flag: every use appends its value as it is.
AddFlag ==
    /\ phase = "parse"
    /\ Len(raw) < MaxFlags
    /\ \E v \in Values : raw' = Append(raw, v)
    /\ UNCHANGED <<config, target, required, phase>>

Parsed ==
    /\ phase = "parse"
    /\ phase' = "complete"
    /\ UNCHANGED <<raw, config, target, required>>

\* strings.SplitN(raw, "=", 2): two parts, neither of them empty.
WellFormed(v) ==
    LET parts == Cut(v, "=") IN
    parts.found /\ parts.before # <<>> /\ parts.after # <<>>

\* Mutant: without any flag there is nothing to refuse.
CompleteEmpty ==
    /\ phase = "complete"
    /\ UNCHANGED <<raw, target, required>>
    /\ \/ /\ \A i \in DOMAIN raw : WellFormed(raw[i])
          /\ config' = [i \in DOMAIN raw |->
                           Capability(Cut(raw[i], "=").before, Cut(raw[i], "=").after)]
          /\ phase' = "apply"
       \/ /\ \E i \in DOMAIN raw : ~WellFormed(raw[i])
          /\ phase' = "exit"
          /\ UNCHANGED config

\* Mutant: strings.Split: what is behind a second separator is lost.
CompleteSplit ==
    /\ phase = "complete"
    /\ UNCHANGED <<raw, target, required>>
    /\ \/ /\ raw # <<>> /\ \A i \in DOMAIN raw : WellFormed(raw[i])
          /\ config' = [i \in DOMAIN raw |->
                           Capability(Cut(raw[i], "=").before,
                                      Cut(Cut(raw[i], "=").after, "=").before)]
          /\ phase' = "apply"
       \/ /\ raw = <<>> \/ \E i \in DOMAIN raw : ~WellFormed(raw[i])
          /\ phase' = "exit"
          /\ UNCHANGED config

\* One malformed value, or none at all, and there is no configuration.
Complete ==
    /\ phase = "complete"
    /\ UNCHANGED <<raw, target, required>>
    /\ \/ /\ raw # <<>> /\ \A i \in DOMAIN raw : WellFormed(raw[i])
          /\ config' = [i \in DOMAIN raw |->
                           Capability(Cut(raw[i], "=").before, Cut(raw[i], "=").after)]
          /\ phase' = "apply"
       \/ /\ raw = <<>> \/ \E i \in DOMAIN raw : ~WellFormed(raw[i])
          /\ phase' = "exit"
          /\ UNCHANGED config

ApplyRequiredCapabilities ==
    /\ phase = "apply"
    /\ target' = IF config # NoConfig THEN config ELSE target
    /\ phase' = "register"
    /\ UNCHANGED <<raw, config, required>>

\* AddToManager calls New, which hands the options to NewShootValidator.
New ==
    /\ phase = "register"
    /\ required' = target
    /\ phase' = "serve"
    /\ UNCHANGED <<raw, config, target>>

Next == AddFlag \/ Parsed \/ Complete \/ ApplyRequiredCapabilities \/ New

Spec == Init /\ [][Next]_vars
-------------------------------------------------------------------------------
(* Properties.                                                             *)

\* A validator that requires nothing would let every machine type through: the
\* component never serves one ("if validation is not desired, do not deploy
\* this webhook").
NeverServesUnchecked == phase = "serve" => required # <<>>

\* What is served is the command line, flag by flag: put together again, name
\* and value give what was passed, separators in the value included.
ServesCommandLine ==
    phase = "serve" =>
        /\ Len(required) = Len(raw)
        /\ \A i \in DOMAIN raw :
            /\ raw[i] = required[i].name \o <<"=">> \o required[i].value
            /\ At(required[i].name, "=") = {}
==============================================================================
