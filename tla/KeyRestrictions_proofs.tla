------------------------ MODULE KeyRestrictions_proofs ------------------------
(***************************************************************************)
(* Proofs about KeyRestrictions, for any contracts, functions, recipients  *)
(* and numbers of rules and scopes.                                        *)
(*                                                                         *)
(* Where the value of a field is had by one element at most, the first     *)
(* match of the code's loops is any match: so order does not matter among  *)
(* the scopes of valid restrictions, nor among the rules of a scope with   *)
(* no selector twice, and the verdict is the meaning of the arguments where*)
(* no rule is for the wildcard.                                            *)
(***************************************************************************)
EXTENDS KeyRestrictions, FiniteSetTheorems, SequenceTheorems, TLAPS

Scopes == [target : Targets, rules : Seq(Rules)]

Typed ==
    /\ builder \in Scopes
    /\ scopes \in Seq(Scopes)
    /\ kr = Unscoped
       \/ \E n \in 0..Len(scopes) :
             kr = [allowAnyCalls |-> FALSE, allowedCalls |-> SubSeq(scopes, 1, n)]

\* What a list of restrictions is made of.
LEMMA KrType ==
    ASSUME Typed
    PROVE  kr.allowAnyCalls \in BOOLEAN /\ kr.allowedCalls \in Seq(Scopes)
<1>1. CASE kr = Unscoped
  BY <1>1, EmptySeq DEF Unscoped
<1>2. ASSUME NEW n \in 0..Len(scopes),
             kr = [allowAnyCalls |-> FALSE, allowedCalls |-> SubSeq(scopes, 1, n)]
      PROVE  kr.allowAnyCalls \in BOOLEAN /\ kr.allowedCalls \in Seq(Scopes)
  <2>1. \A i \in 1..n : scopes[i] \in Scopes
    BY LenProperties, ElementOfSeq DEF Typed
  <2>2. n \in Int /\ 1 \in Int
    BY LenProperties DEF Typed
  <2>3. SubSeq(scopes, 1, n) \in Seq(Scopes)
    BY <2>1, <2>2, SubSeqProperties
  <2>. QED
    BY <1>2, <2>3
<1>. QED
  BY <1>1, <1>2 DEF Typed

LEMMA InitTyped == Init => Typed
  BY EmptySeq DEF Init, Typed, Scopes

LEMMA NextTyped == Typed /\ [Next]_vars => Typed'
<1> SUFFICES ASSUME Typed, [Next]_vars PROVE Typed'
  OBVIOUS
<1>0. Len(scopes) \in Nat
  BY LenProperties DEF Typed
<1>1. ASSUME NEW t \in Targets, NewCallScopeBuilder(t) PROVE Typed'
  BY <1>1, EmptySeq DEF NewCallScopeBuilder, Typed, Scopes
<1>2. ASSUME NEW rule \in Rules, AddRule(rule) PROVE Typed'
  <2>1. Append(builder.rules, rule) \in Seq(Rules)
    BY AppendProperties DEF Typed, Scopes
  <2>. QED
    BY <1>2, <2>1 DEF AddRule, Typed, Scopes
<1>3. CASE Unrestricted
  BY <1>3, EmptySeq DEF Unrestricted, Typed, Scopes
<1>4. CASE Build
  <2>1. scopes' = Append(scopes, builder) /\ builder' = builder /\ kr' = kr
    BY <1>4 DEF Build
  <2>2. /\ scopes' \in Seq(Scopes) /\ Len(scopes') = Len(scopes) + 1
        /\ \A i \in 1..Len(scopes) : scopes'[i] = scopes[i]
    BY <2>1, AppendProperties DEF Typed
  <2>3. ASSUME NEW n \in 0..Len(scopes) PROVE SubSeq(scopes', 1, n) = SubSeq(scopes, 1, n)
    <3>1. /\ SubSeq(scopes, 1, n) \in Seq(Scopes) /\ SubSeq(scopes', 1, n) \in Seq(Scopes)
          /\ Len(SubSeq(scopes, 1, n)) = Len(SubSeq(scopes', 1, n))
          /\ Len(SubSeq(scopes, 1, n)) = n
          /\ \A i \in 1..n : SubSeq(scopes', 1, n)[i] = SubSeq(scopes, 1, n)[i]
      <4>1. \A i \in 1..n : scopes[i] \in Scopes /\ scopes'[i] = scopes[i]
        BY <1>0, <2>2, ElementOfSeq DEF Typed
      <4>2. \A s : (\A i \in 1..n : s[i] \in Scopes) =>
              /\ SubSeq(s, 1, n) \in Seq(Scopes) /\ Len(SubSeq(s, 1, n)) = n
              /\ \A i \in 1..n : SubSeq(s, 1, n)[i] = s[i]
        <5>1. ASSUME NEW s, \A i \in 1..n : s[i] \in Scopes
              PROVE  /\ SubSeq(s, 1, n) \in Seq(Scopes) /\ Len(SubSeq(s, 1, n)) = n
                     /\ \A i \in 1..n : SubSeq(s, 1, n)[i] = s[i]
          <6>1. /\ SubSeq(s, 1, n) \in Seq(Scopes)
                /\ Len(SubSeq(s, 1, n)) = IF 1 <= n THEN n - 1 + 1 ELSE 0
                /\ \A i \in 1..(n - 1 + 1) : SubSeq(s, 1, n)[i] = s[1 + i - 1]
            BY <1>0, <5>1, SubSeqProperties
          <6>. QED
            BY <1>0, <6>1
        <5>. QED
          BY <5>1
      <4>. QED
        BY <4>1, <4>2
    <3>. QED
      BY <3>1, SeqEqual
  <2>. QED
    BY <1>0, <2>1, <2>2, <2>3 DEF Typed
<1>5. CASE NewKeyRestrictions
  BY <1>5, EmptySeq DEF NewKeyRestrictions, Typed
<1>6. CASE WithAllowedCalls(scopes)
  <2>1. scopes = SubSeq(scopes, 1, Len(scopes))
    BY SubSeqFull DEF Typed
  <2>2. UNCHANGED <<builder, scopes>>
        /\ kr' = [allowAnyCalls |-> FALSE, allowedCalls |-> SubSeq(scopes, 1, Len(scopes))]
    BY <1>6, <2>1 DEF WithAllowedCalls
  <2>3. Len(scopes) \in 0..Len(scopes)
    BY <1>0
  <2>. QED
    BY <2>2, <2>3 DEF Typed
<1>7. CASE WithAllowedCalls(<<>>)
  <2>1. <<>> = SubSeq(scopes, 1, 0)
    BY SubSeqEmpty
  <2>2. UNCHANGED <<builder, scopes>>
        /\ kr' = [allowAnyCalls |-> FALSE, allowedCalls |-> SubSeq(scopes, 1, 0)]
    BY <1>7, <2>1 DEF WithAllowedCalls
  <2>3. 0 \in 0..Len(scopes)
    BY <1>0
  <2>. QED
    BY <2>2, <2>3 DEF Typed
<1>8. CASE UNCHANGED vars
  BY <1>8 DEF vars, Typed
<1>. QED
  BY <1>1, <1>2, <1>3, <1>4, <1>5, <1>6, <1>7, <1>8 DEF Next

LEMMA TypedInvariant == Spec => []Typed
  BY InitTyped, NextTyped, PTL DEF Spec

\* Restrictions are unscoped, or have scopes built for this key, in their order, and
\* are not unrestricted besides (restrictions.go:116-149).
THEOREM TypeCorrect == Spec => []TypeOK
<1>1. Typed => TypeOK
  <2> SUFFICES ASSUME Typed PROVE TypeOK
    OBVIOUS
  <2>1. ASSUME NEW i \in DOMAIN scopes
        PROVE  scopes[i].target \in Targets /\ scopes[i].rules \in Seq(Rules)
    <3>1. scopes \in Seq(Scopes) /\ i \in 1..Len(scopes)
      BY LenProperties DEF Typed
    <3>2. scopes[i] \in Scopes
      BY <3>1, ElementOfSeq
    <3>. QED
      BY <3>2 DEF Scopes
  <2>2. builder.target \in Targets /\ builder.rules \in Seq(Rules)
    BY DEF Typed, Scopes
  <2>3. kr \in {Unscoped} \cup [allowAnyCalls : {FALSE},
                  allowedCalls : {SubSeq(scopes, 1, n) : n \in 0..Len(scopes)}]
    <3> DEFINE prefixes == {SubSeq(scopes, 1, n) : n \in 0..Len(scopes)}
    <3>1. ASSUME NEW n \in 0..Len(scopes),
                 kr = [allowAnyCalls |-> FALSE, allowedCalls |-> SubSeq(scopes, 1, n)]
          PROVE  kr \in [allowAnyCalls : {FALSE}, allowedCalls : prefixes]
      <4>1. SubSeq(scopes, 1, n) \in prefixes
        OBVIOUS
      <4>. HIDE DEF prefixes
      <4>. QED
        BY <3>1, <4>1
    <3>. HIDE DEF prefixes
    <3>2. kr \in {Unscoped} \cup [allowAnyCalls : {FALSE}, allowedCalls : prefixes]
      BY <3>1 DEF Typed
    <3>. QED
      BY <3>2 DEF prefixes
  <2>. QED
    BY <2>1, <2>2, <2>3 DEF TypeOK
<1>. QED
  BY <1>1, TypedInvariant, PTL

-----------------------------------------------------------------------------
(* First matches.                                                          *)

\* Where the value is had once at most, a first match is a match.
LEMMA FirstIsAny ==
    ASSUME NEW S, NEW seq \in Seq(S), NEW field, NEW value,
           \A i, j \in DOMAIN seq : seq[i][field] = seq[j][field] => i = j
    PROVE  Firsts(seq, field, value) = {i \in DOMAIN seq : seq[i][field] = value}
<1>1. DOMAIN seq = 1..Len(seq) /\ Len(seq) \in Nat
  BY LenProperties
<1>2. ASSUME NEW i \in DOMAIN seq, seq[i][field] = value
      PROVE  \A j \in 1..(i-1) : seq[j][field] # value
  <2>1. ASSUME NEW j \in 1..(i-1), seq[j][field] = value PROVE FALSE
    <3>1. j \in DOMAIN seq /\ j # i
      BY <1>1
    <3>. QED
      BY <1>2, <2>1, <3>1
  <2>. QED
    BY <2>1
<1>. QED
  BY <1>2 DEF Firsts

\* The sequence backwards has the same elements, each once more only if it was.
LEMMA ReverseProperties ==
    ASSUME NEW S, NEW seq \in Seq(S)
    PROVE  /\ Reverse(seq) \in Seq(S) /\ DOMAIN Reverse(seq) = DOMAIN seq
           /\ \A i \in DOMAIN seq : /\ Len(seq) - i + 1 \in DOMAIN seq
                                   /\ Reverse(seq)[i] = seq[Len(seq) - i + 1]
                                   /\ Reverse(seq)[Len(seq) - i + 1] = seq[i]
<1> DEFINE n == Len(seq)
           e(i) == seq[(n - i) + 1]
<1>1. n \in Nat /\ DOMAIN seq = 1..n
  BY LenProperties
<1>2. \A i \in 1..n : (n - i) + 1 \in 1..n /\ n - ((n - i) + 1) + 1 = i
  BY <1>1
<1>3. \A i \in 1..n : e(i) \in S
  BY <1>1, <1>2, ElementOfSeq
<1>4. Reverse(seq) = [i \in 1..n |-> e(i)]
  BY DEF Reverse
<1>. HIDE DEF n
<1>5. Reverse(seq) \in [1..n -> S]
  BY <1>3, <1>4
<1>6. Reverse(seq) \in Seq(S)
  BY <1>1, <1>5, SeqDef
<1>7. \A i \in 1..n : Reverse(seq)[i] = seq[(n - i) + 1]
                     /\ Reverse(seq)[(n - i) + 1] = seq[i]
  BY <1>2, <1>4
<1>. QED
  BY <1>1, <1>2, <1>5, <1>6, <1>7 DEF n

\* So the verdict on valid restrictions asks for a scope with the target, whichever.
LEMMA VerdictForm ==
    ASSUME NEW list \in Seq(Scopes), NEW any \in BOOLEAN, NEW call,
           \A i, j \in DOMAIN list : list[i].target = list[j].target => i = j
    PROVE  IsCallAllowed([allowAnyCalls |-> any, allowedCalls |-> list], call)
               <=> any \/ \E i \in DOMAIN list :
                             list[i].target = call.target /\ ScopeAllows(list[i], call)
<1>1. Firsts(list, "target", call.target) = {i \in DOMAIN list : list[i].target = call.target}
  BY FirstIsAny
<1>. QED
  BY <1>1 DEF IsCallAllowed

\* Restrictions with any of two lists that are each other's reverse say the same.
LEMMA OrderIsIrrelevant ==
    ASSUME NEW list \in Seq(Scopes), NEW any \in BOOLEAN, NEW call,
           \A i, j \in DOMAIN list : list[i].target = list[j].target => i = j
    PROVE  IsCallAllowed([allowAnyCalls |-> any, allowedCalls |-> list], call)
               <=> IsCallAllowed([allowAnyCalls |-> any, allowedCalls |-> Reverse(list)], call)
<1> DEFINE back == Reverse(list)
           m(i) == Len(list) - i + 1
           Hit(scope) == scope.target = call.target /\ ScopeAllows(scope, call)
<1>1. /\ back \in Seq(Scopes) /\ DOMAIN back = DOMAIN list
      /\ \A i \in DOMAIN list : /\ m(i) \in DOMAIN list
                               /\ back[i] = list[m(i)] /\ back[m(i)] = list[i]
  BY ReverseProperties
<1>2. \A i, j \in DOMAIN list : m(i) = m(j) => i = j
  <2>1. DOMAIN list = 1..Len(list) /\ Len(list) \in Nat
    BY LenProperties
  <2>. QED
    BY <2>1
<1>. HIDE DEF back, m, Hit
<1>3. \A i, j \in DOMAIN back : back[i].target = back[j].target => i = j
  BY <1>1, <1>2
<1>4. IsCallAllowed([allowAnyCalls |-> any, allowedCalls |-> list], call)
          <=> any \/ \E i \in DOMAIN list : Hit(list[i])
  BY VerdictForm DEF Hit
<1>5. IsCallAllowed([allowAnyCalls |-> any, allowedCalls |-> back], call)
          <=> any \/ \E i \in DOMAIN back : Hit(back[i])
  BY <1>1, <1>3, VerdictForm DEF Hit
<1>6. (\E i \in DOMAIN list : Hit(list[i])) <=> (\E i \in DOMAIN back : Hit(back[i]))
  BY <1>1
<1>. QED
  BY <1>4, <1>5, <1>6 DEF back

\* The order of the scopes of valid restrictions makes no difference
\* (restrictions.go:238).
THEOREM ScopeOrderIsIrrelevantHolds == Spec => []ScopeOrderIsIrrelevant
<1>1. Typed => ScopeOrderIsIrrelevant
  <2> SUFFICES ASSUME Typed, Validate(kr), NEW call \in Calls
               PROVE  IsCallAllowed(kr, call)
                        = IsCallAllowed([kr EXCEPT !.allowedCalls = Reverse(@)], call)
    BY DEF ScopeOrderIsIrrelevant
  <2>1. PICK any, list : kr = [allowAnyCalls |-> any, allowedCalls |-> list]
    BY DEF Typed, Unscoped
  <2>2. any \in BOOLEAN /\ list \in Seq(Scopes)
    BY <2>1, KrType
  <2>3. [kr EXCEPT !.allowedCalls = Reverse(@)]
            = [allowAnyCalls |-> any, allowedCalls |-> Reverse(list)]
    BY <2>1
  <2>4. \A i, j \in DOMAIN list : list[i].target = list[j].target => i = j
    BY <2>1 DEF Validate
  <2>5. IsCallAllowed([allowAnyCalls |-> any, allowedCalls |-> list], call)
           <=> IsCallAllowed([allowAnyCalls |-> any, allowedCalls |-> Reverse(list)], call)
    BY <2>2, <2>4, OrderIsIrrelevant
  <2>6. /\ IsCallAllowed([allowAnyCalls |-> any, allowedCalls |-> list], call) \in BOOLEAN
        /\ IsCallAllowed([allowAnyCalls |-> any, allowedCalls |-> Reverse(list)], call) \in BOOLEAN
    BY <2>2 DEF IsCallAllowed
  <2>. QED
    BY <2>1, <2>3, <2>5, <2>6
<1>. QED
  BY <1>1, TypedInvariant, PTL

\* A rule more at the end changes no first match that there was.
LEMMA MoreRulesAllowMore ==
    ASSUME NEW scope \in Scopes, NEW rule \in Rules, NEW call, scope.rules # <<>>,
           ScopeAllows(scope, call),
           NEW longer, longer.rules = Append(scope.rules, rule)
    PROVE  ScopeAllows(longer, call)
<1> DEFINE rules == scope.rules
           more == Append(rules, rule)
<1>1. rules \in Seq(Rules) /\ DOMAIN rules = 1..Len(rules) /\ Len(rules) \in Nat
  BY LenProperties DEF Scopes
<1>2. /\ DOMAIN more = 1..(Len(rules) + 1)
      /\ \A i \in 1..Len(rules) : more[i] = rules[i]
  <2>1. /\ more \in Seq(Rules) /\ Len(more) = Len(rules) + 1
        /\ \A i \in 1..Len(rules) : more[i] = rules[i]
    BY <1>1, AppendProperties
  <2>. QED
    BY <2>1, LenProperties
<1>3. /\ call.length >= 4
      /\ \E i \in Firsts(rules, "selector", call.selector) : RuleAllows(rules[i], call)
  BY DEF ScopeAllows
<1>. HIDE DEF more, rules
<1>4. PICK i \in Firsts(rules, "selector", call.selector) : RuleAllows(rules[i], call)
  BY <1>3
<1>5. i \in Firsts(more, "selector", call.selector) /\ RuleAllows(more[i], call)
  <2>1. /\ i \in 1..Len(rules) /\ rules[i]["selector"] = call.selector
        /\ \A j \in 1..(i-1) : rules[j]["selector"] # call.selector
    BY <1>1, <1>4 DEF Firsts
  <2>2. i \in DOMAIN more /\ more[i] = rules[i]
    BY <1>1, <1>2, <2>1
  <2>3. \A j \in 1..(i-1) : more[j] = rules[j]
    BY <1>1, <1>2, <2>1
  <2>. QED
    BY <1>4, <2>1, <2>2, <2>3 DEF Firsts
<1>6. ScopeAllows(longer, call)
  BY <1>3, <1>5 DEF ScopeAllows, more, rules
<1>. QED
  BY <1>6

\* A further rule takes back nothing (restrictions.go:31-70, 198-206).
THEOREM RulesOnlyAddHolds == Spec => RulesOnlyAdd
<1>1. Typed /\ [Next]_vars =>
        [\A rule \in Rules : AddRule(rule) /\ builder.rules # <<>> =>
            \A call \in Calls : ScopeAllows(builder, call) => ScopeAllows(builder', call)]_vars
  <2> SUFFICES ASSUME Typed, NEW rule \in Rules, AddRule(rule), builder.rules # <<>>,
                      NEW call \in Calls, ScopeAllows(builder, call)
               PROVE  ScopeAllows(builder', call)
    OBVIOUS
  <2>1. builder \in Scopes
    BY DEF Typed
  <2>2. builder'.rules = Append(builder.rules, rule)
    BY <2>1 DEF AddRule, Scopes
  <2>. QED
    BY <2>1, <2>2, MoreRulesAllowMore
<1>. QED
  BY <1>1, TypedInvariant, PTL DEF Spec, RulesOnlyAdd

-----------------------------------------------------------------------------
(* The meaning of the arguments.                                           *)

\* The sequence of the elements of a finite set has these elements, and is empty only
\* if the set is.
LEMMA SetToSeqProperties ==
    ASSUME NEW S, IsFiniteSet(S)
    PROVE  ToSet(SetToSeq(S)) = S /\ (SetToSeq(S) = <<>> <=> S = {})
<1> DEFINE n == Cardinality(S)
           f == SetToSeq(S)
<1>1. n \in Nat /\ ExistsBijection(1..n, S)
  BY FS_CardinalityType
<1>2. \E g \in [1..n -> S] : IsInjective(g)
  <2>1. PICK g \in Bijection(1..n, S) : TRUE
    BY <1>1 DEF ExistsBijection
  <2>2. g \in [1..n -> S] /\ IsInjective(g)
    BY <2>1 DEF Bijection, Injection
  <2>. QED
    BY <2>2
<1>3. f \in [1..n -> S] /\ IsInjective(f)
  BY <1>2 DEF SetToSeq
<1>4. IsFiniteSet(1..n) /\ Cardinality(1..n) = n
  BY <1>1, FS_Interval
<1>. HIDE DEF f
<1>5. f \in Injection(1..n, S)
  BY <1>3 DEF Injection
<1>6. f \in Surjection(1..n, S)
  BY <1>4, <1>5, FS_Injection
<1>7. DOMAIN f = 1..n /\ (\A x \in S : \E i \in 1..n : f[i] = x) /\ \A i \in 1..n : f[i] \in S
  BY <1>3, <1>6 DEF Surjection
<1>8. ToSet(f) = S
  BY <1>7 DEF ToSet
<1>9. f = <<>> <=> S = {}
  <2>1. f \in Seq(S) /\ Len(f) = n
    BY <1>1, <1>3, LenProperties, SeqDef
  <2>2. n = 0 <=> S = {}
    BY FS_EmptySet
  <2>. QED
    BY <2>1, <2>2, EmptySeq
<1>. QED
  BY <1>8, <1>9 DEF f

\* What the ABI makes of a list has as many elements, and no more if there are none.
LEMMA SameLength ==
    ASSUME NEW S, NEW seq \in Seq(S), NEW T, NEW other \in [DOMAIN seq -> T]
    PROVE  other = <<>> <=> seq = <<>>
<1>1. Len(seq) \in Nat /\ DOMAIN seq = 1..Len(seq)
  BY LenProperties
<1>2. other \in Seq(T) /\ Len(other) = Len(seq)
  BY <1>1, LenProperties, SeqDef
<1>. QED
  BY <1>2, EmptySeq

LEMMA RuleMeaning ==
    ASSUME NEW rule \in Rules, NEW call
    PROVE  RuleAllows(rule, call) <=>
               \/ SetToSeq(rule.recipients) = <<>>
               \/ call.length >= 36 /\ call.recipient \in ToSet(SetToSeq(rule.recipients))
<1>1. IsFiniteSet(rule.recipients)
  BY ListAssumption DEF Rules
<1>2. /\ ToSet(SetToSeq(rule.recipients)) = rule.recipients
      /\ SetToSeq(rule.recipients) = <<>> <=> rule.recipients = {}
  BY <1>1, SetToSeqProperties
<1>. QED
  BY <1>2 DEF RuleAllows

ABIRules(rules) ==
    [j \in DOMAIN rules |-> [selector |-> rules[j].selector,
                             recipients |-> SetToSeq(rules[j].recipients)]]

LEMMA ScopeMeaning ==
    ASSUME NEW scope \in Scopes, NEW call, Unambiguous(scope), Plain(scope)
    PROVE  ScopeAllows(scope, call) <=>
               \/ ABIRules(scope.rules) = <<>>
               \/ \E rule \in ToSet(ABIRules(scope.rules)) :
                     /\ call.length >= 4
                     /\ rule.selector \in {call.selector, SelectorWildcard}
                     /\ \/ rule.recipients = <<>>
                        \/ call.length >= 36 /\ call.recipient \in ToSet(rule.recipients)
<1> DEFINE rules == scope.rules
           abi == ABIRules(rules)
           Fits(rule) == \/ rule.recipients = <<>>
                         \/ call.length >= 36 /\ call.recipient \in ToSet(rule.recipients)
<1>1. rules \in Seq(Rules) /\ \A j \in DOMAIN rules : rules[j] \in Rules
  <2>1. rules \in Seq(Rules)
    BY DEF Scopes
  <2>. QED
    BY <2>1, LenProperties, ElementOfSeq
<1>2. /\ DOMAIN abi = DOMAIN rules
      /\ \A j \in DOMAIN rules : abi[j] = [selector |-> rules[j].selector,
                                          recipients |-> SetToSeq(rules[j].recipients)]
  BY DEF ABIRules
<1>3. abi = <<>> <=> rules = <<>>
  <2>1. abi \in [DOMAIN rules -> {abi[j] : j \in DOMAIN rules}]
    BY DEF ABIRules
  <2>. QED
    BY <1>1, <2>1, SameLength
<1>4. \A j \in DOMAIN rules : abi[j].selector = rules[j].selector
                            /\ (Fits(abi[j]) <=> RuleAllows(rules[j], call))
  <2>1. ASSUME NEW j \in DOMAIN rules
        PROVE  abi[j].selector = rules[j].selector /\ (Fits(abi[j]) <=> RuleAllows(rules[j], call))
    <3>. HIDE DEF abi, rules
    <3>1. /\ abi[j].selector = rules[j].selector
          /\ abi[j].recipients = SetToSeq(rules[j].recipients)
      BY <1>2
    <3>2. rules[j] \in Rules
      BY <1>1
    <3>. QED
      BY <3>1, <3>2, RuleMeaning
  <2>. QED
    BY <2>1
<1>5. Firsts(rules, "selector", call.selector)
          = {j \in DOMAIN rules : rules[j].selector = call.selector}
  BY <1>1, FirstIsAny DEF Unambiguous
<1>plain. \A j \in DOMAIN rules : rules[j].selector # SelectorWildcard
  BY DEF Plain
<1>6. ToSet(abi) = {abi[j] : j \in DOMAIN rules}
  BY <1>2 DEF ToSet
<1>. HIDE DEF abi, rules, Fits
<1>7. (\E rule \in ToSet(abi) : /\ call.length >= 4
                                 /\ rule.selector \in {call.selector, SelectorWildcard}
                                 /\ Fits(rule))
        <=> \E j \in DOMAIN rules : /\ call.length >= 4 /\ rules[j].selector = call.selector
                                    /\ RuleAllows(rules[j], call)
  BY <1>4, <1>6, <1>plain
<1>8. ScopeAllows(scope, call) <=>
          \/ rules = <<>>
          \/ \E j \in DOMAIN rules : /\ call.length >= 4 /\ rules[j].selector = call.selector
                                    /\ RuleAllows(rules[j], call)
  BY <1>5 DEF ScopeAllows, rules
<1>9. ScopeAllows(scope, call) <=>
          \/ abi = <<>>
          \/ \E rule \in ToSet(abi) : /\ call.length >= 4
                                      /\ rule.selector \in {call.selector, SelectorWildcard}
                                      /\ Fits(rule)
  BY <1>3, <1>7, <1>8
<1>. QED
  BY <1>9 DEF abi, rules, Fits

LEMMA RestrictionsMeaning ==
    ASSUME NEW list \in Seq(Scopes), NEW any \in BOOLEAN, NEW call,
           \A i, j \in DOMAIN list : list[i].target = list[j].target => i = j,
           \A i \in DOMAIN list : Unambiguous(list[i]) /\ Plain(list[i])
    PROVE  IsCallAllowed([allowAnyCalls |-> any, allowedCalls |-> list], call) <=>
               Permits([allowAnyCalls |-> any, allowedCalls |-> toABICallScopes(list)], call)
<1> DEFINE abi == toABICallScopes(list)
           Allows(scope) ==
               \/ scope.selectorRules = <<>>
               \/ \E rule \in ToSet(scope.selectorRules) :
                     /\ call.length >= 4
                     /\ rule.selector \in {call.selector, SelectorWildcard}
                     /\ \/ rule.recipients = <<>>
                        \/ call.length >= 36 /\ call.recipient \in ToSet(rule.recipients)
<1>1. \A i \in DOMAIN list : list[i] \in Scopes
  BY LenProperties, ElementOfSeq
<1>2. /\ DOMAIN abi = DOMAIN list
      /\ \A i \in DOMAIN list : abi[i] = [target |-> list[i].target,
                                         selectorRules |-> ABIRules(list[i].rules)]
  BY DEF toABICallScopes, ABIRules
<1>3. \A i \in DOMAIN list :
          abi[i].target = list[i].target /\ (Allows(abi[i]) <=> ScopeAllows(list[i], call))
  <2>1. ASSUME NEW i \in DOMAIN list
        PROVE  abi[i].target = list[i].target /\ (Allows(abi[i]) <=> ScopeAllows(list[i], call))
    <3>1. abi[i].target = list[i].target /\ abi[i].selectorRules = ABIRules(list[i].rules)
      BY <1>2
    <3>. HIDE DEF abi
    <3>. QED
      BY <1>1, <3>1, ScopeMeaning
  <2>. QED
    BY <2>1
<1>4. ToSet(abi) = {abi[i] : i \in DOMAIN list}
  BY <1>2 DEF ToSet
<1>5. Permits([allowAnyCalls |-> any, allowedCalls |-> abi], call) <=>
          any \/ \E scope \in ToSet(abi) : scope.target = call.target /\ Allows(scope)
  BY DEF Permits
<1>. HIDE DEF abi, Allows
<1>6. (\E scope \in ToSet(abi) : scope.target = call.target /\ Allows(scope)) <=>
          \E i \in DOMAIN list : list[i].target = call.target /\ ScopeAllows(list[i], call)
  <2>1. ASSUME NEW scope \in ToSet(abi), scope.target = call.target, Allows(scope)
        PROVE  \E i \in DOMAIN list : list[i].target = call.target /\ ScopeAllows(list[i], call)
    <3>1. PICK i \in DOMAIN list : scope = abi[i]
      BY <1>4
    <3>. QED
      BY <1>3, <2>1, <3>1
  <2>2. ASSUME NEW i \in DOMAIN list, list[i].target = call.target, ScopeAllows(list[i], call)
        PROVE  \E scope \in ToSet(abi) : scope.target = call.target /\ Allows(scope)
    BY <1>3, <1>4, <2>2
  <2>. QED
    BY <2>1, <2>2
<1>7. IsCallAllowed([allowAnyCalls |-> any, allowedCalls |-> list], call) <=>
          any \/ \E i \in DOMAIN list : list[i].target = call.target /\ ScopeAllows(list[i], call)
  BY VerdictForm
<1>8. IsCallAllowed([allowAnyCalls |-> any, allowedCalls |-> list], call) <=>
          Permits([allowAnyCalls |-> any, allowedCalls |-> abi], call)
  BY <1>5, <1>6, <1>7
<1>. QED
  BY <1>8 DEF abi

\* The verdict of IsCallAllowed is what the arguments of the calls mean that the
\* library packs for the same restrictions, in scopes with no selector twice and no
\* rule for the wildcard, which IsCallAllowed takes literally (restrictions.go:157-216,
\* calls.go:74-92).
THEOREM VerdictIsMeaningHolds == Spec => []VerdictIsMeaning
<1>1. Typed => VerdictIsMeaning
  <2> SUFFICES ASSUME Typed, AuthorizeKey(kr) # {},
                      \A scope \in ToSet(kr.allowedCalls) : Unambiguous(scope) /\ Plain(scope),
                      NEW arguments \in AuthorizeKey(kr) \cup
                          (IF kr = Unscoped THEN {} ELSE {SetAllowedCalls(kr.allowedCalls)}),
                      NEW call \in Calls
               PROVE  IsCallAllowed(kr, call) <=> Permits(arguments, call)
    BY DEF VerdictIsMeaning
  <2>1. PICK any, list : kr = [allowAnyCalls |-> any, allowedCalls |-> list]
    BY DEF Typed, Unscoped
  <2>2. any \in BOOLEAN /\ list \in Seq(Scopes)
    BY <2>1, KrType
  <2>3. Validate(kr)
    BY DEF AuthorizeKey
  <2>4. \A i, j \in DOMAIN list : list[i].target = list[j].target => i = j
    BY <2>1, <2>3 DEF Validate
  <2>5. \A i \in DOMAIN list : Unambiguous(list[i]) /\ Plain(list[i])
    BY <2>1 DEF ToSet
  <2>6. arguments = [allowAnyCalls |-> any, allowedCalls |-> toABICallScopes(list)]
    <3>1. CASE arguments \in AuthorizeKey(kr)
      BY <2>1, <2>3, <3>1 DEF AuthorizeKey
    <3>2. CASE kr # Unscoped /\ arguments = SetAllowedCalls(kr.allowedCalls)
      <4>1. any = FALSE
        BY <2>1, <3>2 DEF Typed
      <4>. QED
        BY <2>1, <3>2, <4>1 DEF SetAllowedCalls
    <3>. QED
      BY <3>1, <3>2
  <2>. QED
    BY <2>1, <2>2, <2>4, <2>5, <2>6, RestrictionsMeaning
<1>. QED
  BY <1>1, TypedInvariant, PTL
=============================================================================
