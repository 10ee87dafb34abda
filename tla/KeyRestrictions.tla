--------------------------- MODULE KeyRestrictions ---------------------------
(***************************************************************************)
(* pkg/keychain/restrictions.go: the calls an access key may make. Scopes  *)
(* are put together rule by rule with a builder, collected into            *)
(* restrictions, asked for a verdict on each call (IsCallAllowed), and     *)
(* validated when they are packed into an authorizeKey call (calls.go),    *)
(* whose arguments the keychain contract goes by. Absent and empty lists   *)
(* mean different things at each of the three levels.                      *)
(*                                                                         *)
(* Spending limits and the expiry take no part in the verdict and are left *)
(* out. A caller is taken not to write to a list it has handed over.       *)
(*                                                                         *)
(* Names with an underscore are faulty variants of the definition that     *)
(* follows them: the bugs that the properties are tested against.          *)
(***************************************************************************)
EXTENDS Naturals, SequencesExt

CONSTANTS
    Targets,     \* contract addresses
    Selectors,   \* function selectors
    SelectorWildcard, \* the one exported as the wildcard, 0x00000000
    Recipients,  \* first arguments
    Lists,       \* the recipient lists of rules
    MaxRules,    \* bound on the rules of a scope
    MaxScopes    \* bound on the scopes of a key

\* A list has finitely many recipients.
ASSUME ListAssumption ==
    Lists \subseteq SUBSET Recipients /\ \A list \in Lists : IsFiniteSet(list)
ASSUME WildcardAssumption == SelectorWildcard \in Selectors
ASSUME BoundAssumption == MaxRules \in Nat /\ MaxScopes \in Nat

VARIABLES
    builder,  \* the CallScopeBuilder in use
    scopes,   \* the scopes built so far, in order
    kr        \* the KeyRestrictions

vars == <<builder, scopes, kr>>

\* Only whether a recipient is listed matters: a list of them is a set.
Rules == [selector : Selectors, recipients : Lists]

\* A call: its target and its input, which may end before the selector or before
\* the first argument does.
Calls == [target : Targets, length : {3, 4, 35, 36},
          selector : Selectors, recipient : Recipients]

-----------------------------------------------------------------------------
(* The verdict.                                                            *)

\* The first element with the given value of a field; the code's loops break.
Firsts(seq, field, value) ==
    {i \in DOMAIN seq : seq[i][field] = value /\ \A j \in 1..(i-1) : seq[j][field] # value}

\* A recipient is read from input that ends before it does.
RuleAllows_ShortInput(rule, call) ==
    rule.recipients = {} \/ call.recipient \in rule.recipients

RuleAllows(rule, call) ==
    \/ rule.recipients = {}
    \/ call.length >= 36 /\ call.recipient \in rule.recipients

\* The last of several rules counts.
ScopeAllows_LastRule(scope, call) ==
    \/ scope.rules = <<>>
    \/ /\ call.length >= 4
       /\ \E i \in Firsts(Reverse(scope.rules), "selector", call.selector) :
             RuleAllows(Reverse(scope.rules)[i], call)

ScopeAllows(scope, call) ==
    \/ scope.rules = <<>>
    \/ /\ call.length >= 4
       /\ \E i \in Firsts(scope.rules, "selector", call.selector) :
             RuleAllows(scope.rules[i], call)

IsCallAllowed(r, call) ==
    \/ r.allowAnyCalls
    \/ \E i \in Firsts(r.allowedCalls, "target", call.target) :
          ScopeAllows(r.allowedCalls[i], call)

\* Scopes are not compared.
Validate_AnyTargets(r) == ~(r.allowAnyCalls /\ r.allowedCalls # <<>>)

\* Not both unrestricted and scoped, and no target twice. Selectors are not
\* compared.
Validate(r) ==
    /\ ~(r.allowAnyCalls /\ r.allowedCalls # <<>>)
    /\ \A i, j \in DOMAIN r.allowedCalls :
          r.allowedCalls[i].target = r.allowedCalls[j].target => i = j

-----------------------------------------------------------------------------
(* Calls to the keychain contract.                                         *)

\* The ABI has no nil: absent rules and recipients become lists without elements.
toABICallScopes(list) ==
    [i \in DOMAIN list |->
        [target |-> list[i].target,
         selectorRules |-> [j \in DOMAIN list[i].rules |->
             [selector |-> list[i].rules[j].selector,
              recipients |-> SetToSeq(list[i].rules[j].recipients)]]]]

\* AuthorizeKey refuses what is not valid; the arguments of the call otherwise.
AuthorizeKey(r) ==
    IF ~Validate(r) THEN {}
    ELSE {[allowAnyCalls |-> r.allowAnyCalls,
           allowedCalls |-> toABICallScopes(r.allowedCalls)]}

\* SetAllowedCalls, for a key that is there, refuses nothing.
SetAllowedCalls(list) ==
    [allowAnyCalls |-> FALSE, allowedCalls |-> toABICallScopes(list)]

-----------------------------------------------------------------------------
(* Building.                                                               *)

Unscoped == [allowAnyCalls |-> TRUE, allowedCalls |-> <<>>]

Init ==
    /\ \E t \in Targets : builder = [target |-> t, rules |-> <<>>]
    /\ scopes = <<>>
    /\ kr = Unscoped

NewCallScopeBuilder(t) ==
    /\ builder' = [target |-> t, rules |-> <<>>]
    /\ UNCHANGED <<scopes, kr>>

\* WithSelector (with any recipient), Transfer, Approve, TransferWithMemo.
AddRule(rule) ==
    /\ Len(builder.rules) < MaxRules
    /\ builder' = [builder EXCEPT !.rules = Append(@, rule)]
    /\ UNCHANGED <<scopes, kr>>

Unrestricted ==
    /\ builder' = [builder EXCEPT !.rules = <<>>]
    /\ UNCHANGED <<scopes, kr>>

\* Build copies the rules, so that the builder can go on being used.
Build ==
    /\ Len(scopes) < MaxScopes
    /\ scopes' = Append(scopes, builder)
    /\ UNCHANGED <<builder, kr>>

\* A new key, with scopes of its own.
NewKeyRestrictions ==
    /\ kr' = Unscoped
    /\ scopes' = <<>>
    /\ UNCHANGED builder

\* The key stays unrestricted.
WithAllowedCalls_FlagLeft(list) ==
    /\ kr' = [kr EXCEPT !.allowedCalls = list]
    /\ UNCHANGED <<builder, scopes>>

\* From here on the list counts: an empty one denies all calls.
WithAllowedCalls(list) ==
    /\ kr' = [allowAnyCalls |-> FALSE, allowedCalls |-> list]
    /\ UNCHANGED <<builder, scopes>>

Next ==
    \/ \E t \in Targets : NewCallScopeBuilder(t)
    \/ \E rule \in Rules : AddRule(rule)
    \/ Unrestricted
    \/ Build
    \/ NewKeyRestrictions
    \/ WithAllowedCalls(scopes)   \* WithAllowedCalls
    \/ WithAllowedCalls(<<>>)     \* WithNoCalls

Spec == Init /\ [][Next]_vars

-----------------------------------------------------------------------------
(* Properties.                                                             *)

TypeOK ==
    /\ builder.target \in Targets /\ builder.rules \in Seq(Rules)
    /\ \A i \in DOMAIN scopes :
          scopes[i].target \in Targets /\ scopes[i].rules \in Seq(Rules)
    /\ kr \in {Unscoped}
             \cup [allowAnyCalls : {FALSE},
                   allowedCalls : {SubSeq(scopes, 1, n) : n \in 0..Len(scopes)}]

\* No rule of a scope is for the wildcard.
Plain(scope) == \A i \in DOMAIN scope.rules : scope.rules[i].selector # SelectorWildcard

\* No two rules of a scope have the same selector.
Unambiguous(scope) ==
    \A i, j \in DOMAIN scope.rules :
        scope.rules[i].selector = scope.rules[j].selector => i = j

\* What the arguments of such a call mean, with no regard to order: any call may be
\* made, or some scope is for the target, and it has no rules, or some rule is for
\* the selector, or for the wildcard, which is any selector, and it has no recipients
\* or lists this one. Input that ends early matches no selector, and no recipient.
Permits(arguments, call) ==
    \/ arguments.allowAnyCalls
    \/ \E scope \in ToSet(arguments.allowedCalls) :
          /\ scope.target = call.target
          /\ \/ scope.selectorRules = <<>>
             \/ \E rule \in ToSet(scope.selectorRules) :
                   /\ call.length >= 4
                   /\ rule.selector \in {call.selector, SelectorWildcard}
                   /\ \/ rule.recipients = <<>>
                      \/ call.length >= 36 /\ call.recipient \in ToSet(rule.recipients)

\* The library's verdict is what the call it packs for the keychain contract means,
\* for restrictions that AuthorizeKey takes and that have no selector twice in a
\* scope, of which the first would decide, and no rule for the wildcard, which the
\* code compares like any other (WildcardIsWild, below): the first match found is the only one, and an
\* absent list, an empty one and input that ends early each count as they should.
\* The scopes that SetAllowedCalls packs for the same list say the same, unless they
\* were never restricted (restrictions.go:157-216, calls.go:74-92).
VerdictIsMeaning ==
    /\ AuthorizeKey(kr) # {}
    /\ \A scope \in ToSet(kr.allowedCalls) : Unambiguous(scope) /\ Plain(scope)
    => \A arguments \in AuthorizeKey(kr) \cup
               (IF kr = Unscoped THEN {} ELSE {SetAllowedCalls(kr.allowedCalls)}),
          call \in Calls :
           IsCallAllowed(kr, call) <=> Permits(arguments, call)

\* A further rule never takes back what the rules of a scope allow (the first
\* rule of a scope is different: it ends the scope's being unrestricted).
RulesOnlyAdd ==
    [][\A rule \in Rules : AddRule(rule) /\ builder.rules # <<>> =>
          \A call \in Calls : ScopeAllows(builder, call) => ScopeAllows(builder', call)]_vars

\* Valid restrictions say the same in whatever order their scopes are
\* (restrictions.go:238).
ScopeOrderIsIrrelevant ==
    Validate(kr) =>
        \A call \in Calls :
            IsCallAllowed(kr, call)
                = IsCallAllowed([kr EXCEPT !.allowedCalls = Reverse(@)], call)

-----------------------------------------------------------------------------
(* What comments say and the code does not ensure.                         *)

\* restrictions.go:16 exports a wildcard, and line 83 says that a wildcard selector
\* without recipients stands for any call to the target: valid restrictions with such
\* a rule should allow every function of the target.
WildcardIsWild ==
    Validate(kr) =>
        \A scope \in ToSet(kr.allowedCalls), call \in Calls :
            /\ scope.target = call.target /\ call.length >= 4
            /\ [selector |-> SelectorWildcard, recipients |-> {}] \in ToSet(scope.rules)
            => IsCallAllowed(kr, call)
=============================================================================
