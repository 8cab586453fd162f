---------------------------- MODULE TrafficFilter ---------------------------
(***************************************************************************)
(* The admin traffic filter: a policy (IP ranges, countries, networks,     *)
(* anonymous sources) is compiled to ordered WAF rules, stored in one row, *)
(* and written to the live Web ACL and the IP set it refers to, which WAF  *)
(* can only update one after the other.  The audit entry of each update    *)
(* and the console's text fields are left out.                             *)
(***************************************************************************)
EXTENDS Naturals, Sequences

CONSTANTS
    FilterAdmin, \* admins with the console open
    Cidr,        \* IPv4 ranges, disjoint
    Country,     \* ISO country codes
    PresetAsns,  \* [network preset -> its AS numbers]
    Baseline,    \* the rules Terraform put on the Web ACL
    MaxPriority  \* bound on their priorities

\* The ACL's priorities are unique.
ASSUME FilterAssumption ==
    /\ \A p \in DOMAIN PresetAsns : PresetAsns[p] # {}
    /\ MaxPriority \in Nat
    /\ \A r \in Baseline : /\ r.type = "baseline" /\ r.action \in {"allow", "block"}
                          /\ r.priority \in 0..MaxPriority
                          /\ \A q \in Baseline : q.priority = r.priority => q = r

VARIABLES
    policyRow,  \* the stored policy with the outcome of its last apply, or NoPolicy
    ipSet,      \* addresses of the live IP set
    webAcl,     \* the live Web ACL: its rules with their priorities, its default action
    update      \* [FilterAdmin -> the updatePolicy under way: at, policy, lock]

filterVars == <<policyRow, ipSet, webAcl, update>>

Preset == DOMAIN PresetAsns
Asn == UNION {PresetAsns[p] : p \in Preset}
FilterMode == {"allow", "block"}
Elsewhere == "elsewhere"

Policies == [mode : FilterMode, cidrs : SUBSET Cidr, countries : SUBSET Country,
             asns : SUBSET Asn, presets : SUBSET Preset, blockAnonymous : BOOLEAN]

EmptyPolicy == [mode |-> "block", cidrs |-> {}, countries |-> {}, asns |-> {},
                presets |-> {}, blockAnonymous |-> FALSE]

\* Entries are well formed here; what is left to refuse is the lockout.
ValidPolicy(p) ==
    p.mode = "allow" => p.cidrs # {} \/ p.countries # {} \/ p.asns # {} \/ p.presets # {}

EffectiveAsns(p) == p.asns \cup UNION {PresetAsns[n] : n \in p.presets}

Rule(type, action, of) == [type |-> type, action |-> action, of |-> of]
Given(cond, rule) == IF cond THEN <<rule>> ELSE <<>>

\* The ordered rules of a policy; its IP ranges go to the IP set instead.
CompiledRules(p) ==
    Given(p.blockAnonymous, Rule("managed-anonymous", "block", {}))
        \o Given(p.cidrs # {}, Rule("ip", p.mode, {}))
        \o Given(p.countries # {}, Rule("geo", p.mode, p.countries))
        \o Given(EffectiveAsns(p) # {}, Rule("asn", p.mode, EffectiveAsns(p)))

DefaultAction(p) == IF p.mode = "allow" THEN "block" ELSE "allow"

NoPolicy == [policy |-> EmptyPolicy, outcome |-> "never"]
StoredPolicy(p, outcome) == [policy |-> p, outcome |-> outcome]
NotUpdating(a) == update[a].at = "idle"
NoUpdate == [at |-> "idle", policy |-> EmptyPolicy, lock |-> FALSE]

FilterInit ==
    /\ policyRow = NoPolicy
    /\ ipSet = {}
    /\ webAcl = [rules |-> Baseline, default |-> "allow"]
    /\ update = [a \in FilterAdmin |-> NoUpdate]

-----------------------------------------------------------------------------
(* updatePolicy, one action per call it awaits *)

At(a, from, to) == /\ update[a].at = from
                   /\ update' = [update EXCEPT ![a].at = to]

\* The console's Save is enabled for a valid policy, loaded or not.
SavePolicy(a, p) ==
    /\ NotUpdating(a) /\ ValidPolicy(p)
    /\ update' = [update EXCEPT ![a] = [NoUpdate EXCEPT !.at = "persist", !.policy = p]]
    /\ UNCHANGED <<policyRow, ipSet, webAcl>>

\* Mutant: the outcome of the previous apply stays on the row.
OutcomeKept(p) == StoredPolicy(p, policyRow.outcome)

\* The row before the apply: the intended policy, with no outcome yet.
Intention(p) == StoredPolicy(p, "none")

PersistPolicy(a) ==
    /\ At(a, "persist", "getIpSet")
    /\ policyRow' = Intention(update[a].policy)
    /\ UNCHANGED <<ipSet, webAcl>>

\* A lock token is good until somebody else updates the same thing.
Locked(a, to) == [b \in FilterAdmin |-> IF b = a THEN [update[b] EXCEPT !.at = to, !.lock = TRUE]
                                  ELSE update[b]]
Breaks(a, type, to) ==
    [b \in FilterAdmin |-> IF b = a THEN [update[b] EXCEPT !.at = to]
                     ELSE IF update[b].at = type THEN [update[b] EXCEPT !.lock = FALSE]
                     ELSE update[b]]

GetIpSet(a) == /\ update[a].at = "getIpSet"
               /\ update' = Locked(a, "putIpSet")
               /\ UNCHANGED <<policyRow, ipSet, webAcl>>

UpdateIpSet(a) == /\ update[a].at = "putIpSet" /\ update[a].lock
                  /\ ipSet' = update[a].policy.cidrs
                  /\ update' = Breaks(a, "putIpSet", "getWebAcl")
                  /\ UNCHANGED <<policyRow, webAcl>>

GetWebAcl(a) == /\ update[a].at = "getWebAcl"
                /\ update' = Locked(a, "putWebAcl")
                /\ UNCHANGED <<policyRow, ipSet, webAcl>>

NotOurs(rule) == rule.type = "baseline"

\* The least priority above those of the rules that stay.
EddBasePriority(baseline) ==
    CHOOSE n \in 0..MaxPriority + 1 : /\ \A r \in baseline : r.priority < n
                                      /\ n = 0 \/ \E r \in baseline : r.priority = n - 1

ToWafRule(rule, priority) ==
    [type |-> rule.type, action |-> rule.action, of |-> rule.of, priority |-> priority]

\* The Web ACL with a policy's rules, in their order, after the ones that stay.
Materialized(rules, p) ==
    LET baseline == {r \in rules : NotOurs(r)}
        compiled == CompiledRules(p)
    IN  [rules   |-> baseline \cup {ToWafRule(compiled[i], EddBasePriority(baseline) + i - 1) :
                                     i \in 1..Len(compiled)},
         default |-> DefaultAction(p)]

UpdateWebAcl(a) ==
    /\ update[a].at = "putWebAcl" /\ update[a].lock
    /\ webAcl' = Materialized(webAcl.rules, update[a].policy)
    /\ update' = Breaks(a, "putWebAcl", "applied")
    /\ UNCHANGED <<policyRow, ipSet>>

\* A call to WAF fails, or its lock token is stale.
ApplyFails(a) ==
    /\ update[a].at \in {"getIpSet", "putIpSet", "getWebAcl", "putWebAcl"}
    /\ update' = [update EXCEPT ![a].at = "failed"]
    /\ UNCHANGED <<policyRow, ipSet, webAcl>>

RecordOutcome(a) ==
    /\ update[a].at \in {"applied", "failed"}
    /\ policyRow' = StoredPolicy(update[a].policy,
                                 IF update[a].at = "applied" THEN "ok" ELSE "error")
    /\ update' = [update EXCEPT ![a] = NoUpdate]
    /\ UNCHANGED <<ipSet, webAcl>>

\* The process dies, or a write of the row fails and the request with it.
UpdateLost(a) == /\ ~NotUpdating(a)
                 /\ update' = [update EXCEPT ![a] = NoUpdate]
                 /\ UNCHANGED <<policyRow, ipSet, webAcl>>

FilterNext ==
    \E a \in FilterAdmin :
        \/ \E p \in Policies : SavePolicy(a, p)
        \/ PersistPolicy(a) \/ GetIpSet(a) \/ UpdateIpSet(a) \/ GetWebAcl(a)
        \/ UpdateWebAcl(a) \/ ApplyFails(a) \/ RecordOutcome(a) \/ UpdateLost(a)

FilterSpec == FilterInit /\ [][FilterNext]_filterVars

\* What the console is told: the stored policy, the rules it compiles to, and
\* whether its last apply succeeded.
GetState == [policy  |-> policyRow.policy, default |-> DefaultAction(policyRow.policy),
             rules   |-> CompiledRules(policyRow.policy),
             applied |-> policyRow.outcome = "ok"]

-----------------------------------------------------------------------------
(* What the live WAF does with a request *)

Sources == [cidr : Cidr \cup {Elsewhere}, country : Country \cup {Elsewhere},
            asn : Asn \cup {Elsewhere}, anonymous : BOOLEAN, caught : SUBSET Baseline]

Matches(rule, s) == \/ rule.type = "baseline" /\ rule \in s.caught
                    \/ rule.type = "managed-anonymous" /\ s.anonymous
                    \/ rule.type = "ip" /\ s.cidr \in ipSet
                    \/ rule.type = "geo" /\ s.country \in rule.of
                    \/ rule.type = "asn" /\ s.asn \in rule.of

\* The first rule that matches decides.
First(rules) == CHOOSE r \in rules : \A q \in rules : r.priority <= q.priority
Decision(s) ==
    LET hits == {r \in webAcl.rules : Matches(r, s)}
    IN  IF hits = {} THEN webAcl.default ELSE First(hits).action

(* Properties *)

\* What the policy's author means by it, with no regard to its rules or their
\* order, for a source that Terraform's own rules let through.
Intended(p, s) ==
    LET listed == \/ s.cidr \in p.cidrs \/ s.country \in p.countries \/ s.asn \in p.asns
                  \/ \E n \in p.presets : s.asn \in PresetAsns[n]
    IN  IF s.caught # {} THEN First(s.caught).action
        ELSE IF p.blockAnonymous /\ s.anonymous THEN "block"
        ELSE IF listed THEN p.mode ELSE DefaultAction(p)

\* A policy the console reports as applied is the one the live WAF enforces on
\* every source, whatever failed or died in the updates before (updatePolicy,
\* apply, compileTrafficFilter).
AppliedIsEnforced ==
    GetState.applied => \A s \in Sources : Decision(s) = Intended(GetState.policy, s)

=============================================================================
