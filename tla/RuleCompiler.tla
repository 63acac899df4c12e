--------------------------- MODULE RuleCompiler ----------------------------
(***************************************************************************)
(* The rule-compilation loop of updatePolicyRules                          *)
(* (src/agent-ovs/lib/PolicyManager.cpp, lines 971-1086) as a state        *)
(* machine: one step per iteration of its subject, rule, action and        *)
(* classifier loops.  The contents of the contract (how many subjects,     *)
(* which rules have a direction, which actions and how many classifiers a  *)
(* rule has) are chosen by the steps, so the reachable behaviours are      *)
(* every compilation of every contract within the bounds.                  *)
(*                                                                         *)
(* Rules and classifiers are taken already in the order stable_sort gives  *)
(* them: the priorities depend only on their positions.  A classifier is   *)
(* abstracted to its position, an emitted PolicyRule to its priority,      *)
(* allow and redirect flags and where it was emitted.                      *)
(***************************************************************************)
EXTENDS Integers, Sequences

CONSTANTS
    MaxSubjects,     \* subjects of a contract
    MaxActions,      \* action relations of a rule
    MaxClassifiers,  \* classifiers of a rule
    Orders           \* order attributes an AllowDenyAction may carry

\* PolicyManager::MAX_POLICY_RULE_PRIORITY (line 54), a uint16_t
MAX_POLICY_RULE_PRIORITY == 8192
(***************************************************************************)
(* Orders are uint32_t values that are only compared, so they are encoded  *)
(* order-preservingly in a range TLC's integers hold: UINT32_MAX, the      *)
(* initial minOrder, is 1000, and UINT32_MAX-1, the order getOrder gives   *)
(* an action that has none, is 999; explicit orders are 0 .. 1000.        *)
(***************************************************************************)
UINT32_MAX == 1000
NoOrder == UINT32_MAX - 1
\* The 16-bit priority of a PolicyRule
U16(n) == n % 2^16

ASSUME Orders \subseteq 0 .. UINT32_MAX

(***************************************************************************)
(* An emitted PolicyRule: its priority and flags, the subject it came      *)
(* from, whether it is the first of its rule's classifiers, and whether    *)
(* its rule was above the priority floor (rulePrio > 128).                 *)
(***************************************************************************)
NoRule == [prio |-> -1, allow |-> FALSE, redirect |-> FALSE,
           subject |-> 0, first |-> FALSE, aboveFloor |-> FALSE]

VARIABLES
    phase,         \* which loop the compiler is at the head of
    subject,       \* subjects iterated so far
    rulePrio,      \* uint16_t rulePrio
    clsPrio,       \* uint16_t clsPrio
    cls,           \* classifiers of the current rule emitted so far
    ruleAllow,
    ruleRedirect,
    minOrder,
    acts,          \* the actions of the current rule, in relation order
    last           \* the PolicyRule emitted last, NoRule before the first

vars == <<phase, subject, rulePrio, clsPrio, cls, ruleAllow,
          ruleRedirect, minOrder, acts, last>>

Phases == {"subjects", "rules", "actions", "classifiers"}

\* The start of updatePolicyRules on a parent that resolves
Init ==
    /\ phase = "subjects"
    /\ subject = 0
    /\ rulePrio = MAX_POLICY_RULE_PRIORITY
    /\ clsPrio = 0
    /\ cls = 0
    /\ ruleAllow = TRUE
    /\ ruleRedirect = FALSE
    /\ minOrder = UINT32_MAX
    /\ acts = <<>>
    /\ last = NoRule

\* for (sub : subjects): the rule list is resolved and rulePrio reset
NextSubject ==
    /\ phase = "subjects"
    /\ subject < MaxSubjects
    /\ subject' = subject + 1
    /\ rulePrio' = MAX_POLICY_RULE_PRIORITY
    /\ phase' = "rules"
    /\ UNCHANGED <<clsPrio, cls, ruleAllow, ruleRedirect, minOrder, acts, last>>

\* The last subject is done, and the next updatePolicyRules of the contract
\* starts afresh: an empty newRules, the subjects resolved again, and the
\* loop state of the first subject.
Recompile ==
    /\ phase = "subjects"
    /\ subject > 0
    /\ subject' = 0
    /\ rulePrio' = MAX_POLICY_RULE_PRIORITY
    /\ clsPrio' = 0
    /\ cls' = 0
    /\ ruleAllow' = TRUE
    /\ ruleRedirect' = FALSE
    /\ minOrder' = UINT32_MAX
    /\ acts' = <<>>
    /\ last' = NoRule
    /\ UNCHANGED phase

(***************************************************************************)
(* A rule with a direction: its flags start as allow, no redirect.  A rule *)
(* with no direction set is skipped (continue, before the decrement) and   *)
(* changes no state, so it is not a step.  The number of rules is not      *)
(* bounded: once rulePrio is at the floor the states repeat.               *)
(***************************************************************************)
StartRule ==
    /\ phase = "rules"
    /\ phase' = "actions"
    /\ ruleAllow' = TRUE
    /\ ruleRedirect' = FALSE
    /\ minOrder' = UINT32_MAX
    /\ acts' = <<>>
    /\ clsPrio' = 0
    /\ cls' = 0
    /\ UNCHANGED <<subject, rulePrio, last>>

\* The rule loop of a subject ends
EndSubject ==
    /\ phase = "rules"
    /\ phase' = "subjects"
    /\ UNCHANGED <<subject, rulePrio, clsPrio, cls, ruleAllow,
                   ruleRedirect, minOrder, acts, last>>

\* Mutant: the last of several actions of least order wins (<= for <)
AllowDenyLastOfTies(o, a) ==
    /\ phase = "actions"
    /\ Len(acts) < MaxActions
    /\ acts' = Append(acts, [redirect |-> FALSE, order |-> o, allow |-> a])
    /\ IF o <= minOrder
       THEN minOrder' = o /\ ruleAllow' = a
       ELSE UNCHANGED <<minOrder, ruleAllow>>
    /\ UNCHANGED <<phase, subject, rulePrio, clsPrio, cls,
                   ruleRedirect, last>>

\* An AllowDenyAction that resolves: it decides ruleAllow when its order is
\* strictly below every order seen so far
AllowDeny(o, a) ==
    /\ phase = "actions"
    /\ Len(acts) < MaxActions
    /\ acts' = Append(acts, [redirect |-> FALSE, order |-> o, allow |-> a])
    /\ IF o < minOrder
       THEN minOrder' = o /\ ruleAllow' = a
       ELSE UNCHANGED <<minOrder, ruleAllow>>
    /\ UNCHANGED <<phase, subject, rulePrio, clsPrio, cls,
                   ruleRedirect, last>>

\* A RedirectAction (resolving or not): redirect, and allow cleared
Redirect ==
    /\ phase = "actions"
    /\ Len(acts) < MaxActions
    /\ acts' = Append(acts, [redirect |-> TRUE, order |-> UINT32_MAX,
                             allow |-> FALSE])
    /\ ruleRedirect' = TRUE
    /\ ruleAllow' = FALSE
    /\ UNCHANGED <<phase, subject, rulePrio, clsPrio, cls, minOrder, last>>

\* The action loop ends; the classifiers are emitted next
EndActions ==
    /\ phase = "actions"
    /\ phase' = "classifiers"
    /\ UNCHANGED <<subject, rulePrio, clsPrio, cls, ruleAllow,
                   ruleRedirect, minOrder, acts, last>>

\* Mutant: clsPrio is incremented without the saturation test
EmitClassifierNoSaturation ==
    /\ phase = "classifiers"
    /\ cls < MaxClassifiers
    /\ last' = [prio |-> U16(rulePrio - clsPrio), allow |-> ruleAllow,
                redirect |-> ruleRedirect, subject |-> subject,
                first |-> cls = 0, aboveFloor |-> rulePrio > 128]
    /\ clsPrio' = clsPrio + 1
    /\ cls' = cls + 1
    /\ UNCHANGED <<phase, subject, rulePrio, ruleAllow, ruleRedirect,
                   minOrder, acts>>

\* One PolicyRule per classifier at rulePrio - clsPrio; clsPrio saturates
EmitClassifier ==
    /\ phase = "classifiers"
    /\ cls < MaxClassifiers
    /\ last' = [prio |-> U16(rulePrio - clsPrio), allow |-> ruleAllow,
                redirect |-> ruleRedirect, subject |-> subject,
                first |-> cls = 0, aboveFloor |-> rulePrio > 128]
    /\ clsPrio' = IF clsPrio < 127 THEN clsPrio + 1 ELSE clsPrio
    /\ cls' = cls + 1
    /\ UNCHANGED <<phase, subject, rulePrio, ruleAllow, ruleRedirect,
                   minOrder, acts>>

\* Mutant: the decrement is taken without the floor test
EndRuleNoFloor ==
    /\ phase = "classifiers"
    /\ rulePrio' = U16(rulePrio - 128)
    /\ phase' = "rules"
    /\ UNCHANGED <<subject, clsPrio, cls, ruleAllow, ruleRedirect,
                   minOrder, acts, last>>

\* Mutant: the per-rule step is 127, the width of the classifier offsets
EndRuleBy127 ==
    /\ phase = "classifiers"
    /\ rulePrio' = IF rulePrio > 128 THEN U16(rulePrio - 127) ELSE rulePrio
    /\ phase' = "rules"
    /\ UNCHANGED <<subject, clsPrio, cls, ruleAllow, ruleRedirect,
                   minOrder, acts, last>>

\* The rule is done: rulePrio drops by 128 while it is above 128
EndRule ==
    /\ phase = "classifiers"
    /\ rulePrio' = IF rulePrio > 128 THEN U16(rulePrio - 128) ELSE rulePrio
    /\ phase' = "rules"
    /\ UNCHANGED <<subject, clsPrio, cls, ruleAllow, ruleRedirect,
                   minOrder, acts, last>>

Next ==
    \/ NextSubject
    \/ Recompile
    \/ StartRule
    \/ EndSubject
    \/ \E o \in Orders \cup {NoOrder}, a \in BOOLEAN : AllowDeny(o, a)
    \/ Redirect
    \/ EndActions
    \/ EmitClassifier
    \/ EndRule

Spec == Init /\ [][Next]_vars

-----------------------------------------------------------------------------
TypeOK ==
    /\ phase \in Phases
    /\ subject \in 0 .. MaxSubjects
    /\ rulePrio \in 0 .. 2^16 - 1
    /\ clsPrio \in 0 .. 127
    /\ cls \in 0 .. MaxClassifiers
    /\ ruleAllow \in BOOLEAN
    /\ ruleRedirect \in BOOLEAN
    /\ minOrder \in 0 .. UINT32_MAX
    /\ Len(acts) \in 0 .. MaxActions
    /\ last.prio \in -1 .. 2^16 - 1

Emitted(r) == r # NoRule

(***************************************************************************)
(* Priorities stay in the range the renderers use (1 .. 8192): the uint16  *)
(* rulePrio - clsPrio never wraps, because rulePrio stops decreasing at    *)
(* 128 and clsPrio stops increasing at 127, whatever the number of rules   *)
(* and classifiers.                                                        *)
(***************************************************************************)
PriorityInRange ==
    Emitted(last) => last.prio \in 1 .. MAX_POLICY_RULE_PRIORITY

(***************************************************************************)
(* Within one subject, the priorities of updatePolicyRules' output never   *)
(* increase inside a rule, and drop strictly from one rule to the next     *)
(* as long as the earlier rule was above the floor (rulePrio > 128): the   *)
(* 128 taken off rulePrio per rule exceeds the at most 127 taken off by    *)
(* the classifiers of a rule.                                              *)
(***************************************************************************)
SubjectPriorityOrder ==
    [][ Emitted(last) /\ Emitted(last') /\ last' # last
        /\ last'.subject = last.subject =>
            /\ ~last'.first => last'.prio <= last.prio
            /\ last'.first /\ last.aboveFloor => last'.prio < last.prio ]_vars

(***************************************************************************)
(* Spec 8.5: within one contract's compiled rule list, priorities are      *)
(* non-increasing in emission order.                                       *)
(***************************************************************************)
RulePriorityMonotone ==
    [][ Emitted(last) /\ Emitted(last') => last'.prio <= last.prio ]_vars

(***************************************************************************)
(* Reference for the action loop: a rule without a redirect action takes   *)
(* the allow flag of the first allow-deny action of least order, and is    *)
(* allowed when it has none.                                               *)
(***************************************************************************)
RefAllow(as) ==
    LET ads == {i \in DOMAIN as : ~as[i].redirect}
        first == CHOOSE i \in ads :
                     \A j \in ads : as[i].order < as[j].order
                                    \/ (as[i].order = as[j].order /\ i <= j)
    IN IF ads = {} THEN TRUE ELSE as[first].allow

\* The flags the classifiers of a redirect-free rule are emitted with are
\* those of the reference, for every order of the rule's action relations.
AllowByLeastOrder ==
    phase = "classifiers" /\ ~ruleRedirect => ruleAllow = RefAllow(acts)

(***************************************************************************)
(* Spec 4.5: a redirect action forces ruleAllow = false, so no emitted     *)
(* PolicyRule both redirects and allows.                                   *)
(***************************************************************************)
RedirectNeverAllows == Emitted(last) /\ last.redirect => ~last.allow
=============================================================================
