------------------------- MODULE PacketRouterProofs -------------------------
(***************************************************************************)
(* Proofs about RuleConfig and PacketRouter for any files, words, packets  *)
(* and DNS responses.                                                      *)
(***************************************************************************)
EXTENDS DomainCacheProofs

\* The rules Rule::parse_compact may return: that of a MATCH line ...
All(a) == Rule(NoCondition, TRUE, a)

\* ... and one with the k-th condition.
One(k, v, a) == Rule([x \in {Fields[k]} |-> v], FALSE, a)

\* The parts of that rule.
HasOne(r, k, v, a) ==
    /\ DOMAIN r.when = {Fields[k]} /\ r.when[Fields[k]] = v
    /\ r.action = a /\ r.match_all = FALSE

\* r is what a line with the keyword of the k-th condition stands for.
ReadAs(line, k, r) ==
    /\ Len(line) = 3 /\ line[2] # ""
    /\ \E v \in RuleValue(Fields[k], line[2]), a \in ParseAction(line[3]) : r = One(k, v, a)

\* v is a value the k-th condition may have.
Proper(k, v) == v # "" /\ RuleValue(Fields[k], v) = {v}

LEMMA FieldsDomain ==
    /\ DOMAIN Fields = 1 .. 9 /\ Len(Fields) = 9
    /\ DOMAIN FieldWords = 1 .. 9 /\ Len(FieldWords) = 9
BY DEF Fields, FieldWords

LEMMA FieldsDiffer ==
    ASSUME NEW i \in 1 .. 9, NEW j \in 1 .. 9
    PROVE  /\ Fields[i] = Fields[j] => i = j
           /\ FieldWords[i] = FieldWords[j] => i = j
           /\ FieldWords[i] # "MATCH"
BY DEF Fields, FieldWords

LEMMA MinOfOne ==
    ASSUME NEW k \in Int
    PROVE  Min({k}) = k
BY DEF Min

\* The position of a keyword in the table of keywords.
LEMMA WordAt ==
    ASSUME NEW k \in 1 .. 9
    PROVE  FieldAt(FieldWords[k]) = k
<1>1. {i \in 1 .. Len(FieldWords) : FieldWords[i] = FieldWords[k]} = {k}
  BY Zenon, FieldsDomain, FieldsDiffer
<1>. QED  BY <1>1, MinOfOne DEF SelectInSeq, FieldAt

LEMMA NoWordAt ==
    ASSUME NEW word, \A k \in 1 .. 9 : word # FieldWords[k]
    PROVE  FieldAt(word) = 0
BY Zenon, FieldsDomain DEF SelectInSeq, FieldAt

\* The position of the condition of a rule that has one.
LEMMA ConditionAt ==
    ASSUME NEW k \in 1 .. 9, NEW r, DOMAIN r.when = {Fields[k]}
    PROVE  FirstField(r) = k
<1>1. {i \in 1 .. Len(Fields) : Fields[i] \in DOMAIN r.when} = {k}
  BY Zenon, FieldsDomain, FieldsDiffer
<1>. QED  BY <1>1, MinOfOne DEF SelectInSeq, FirstField

LEMMA ActionParsed ==
    ASSUME NEW a \in Action
    PROVE  ParseAction(a) = {a}
BY Zenon, WordsAssumption DEF ParseAction

LEMMA ParsedAction ==
    ASSUME NEW w, NEW a \in ParseAction(w)
    PROVE  a \in Action
BY DEF ParseAction, ActionOf, Action

LEMMA UpperStays == ASSUME NEW w PROVE Upper(Upper(w)) = Upper(w)
BY Zenon, WordsAssumption DEF Upper, Apply

LEMMA NormalStays == ASSUME NEW w PROVE Normalize(Normalize(w)) = Normalize(w)
BY Zenon, WordsAssumption DEF Normalize, Apply

LEMMA RuleValueIs ==
    ASSUME NEW f, NEW w
    PROVE  /\ f \in DomainField => RuleValue(f, w) = {Normalize(w)} \ ({""} \cup Odd)
           /\ f = "geoip" => RuleValue(f, w) = {Upper(w)} \ ({""} \cup Odd)
           /\ f \notin DomainField /\ f # "geoip" => RuleValue(f, w) = {w}
<1>1. f = "geoip" => f \notin DomainField
  BY Zenon DEF DomainField
<1>. QED  BY Zenon, <1>1 DEF RuleValue

\* What normalize_domain_rule_value and normalize_geoip_rule_value return they
\* leave alone.
LEMMA ValueStays ==
    ASSUME NEW f, NEW w, w # "", NEW v \in RuleValue(f, w)
    PROVE  v # "" /\ RuleValue(f, v) = {v}
<1>1. CASE f \in DomainField
  <2>1. /\ RuleValue(f, w) = {Normalize(w)} \ ({""} \cup Odd)
        /\ RuleValue(f, v) = {Normalize(v)} \ ({""} \cup Odd)
    BY Zenon, <1>1, RuleValueIs
  <2>2. v = Normalize(w) /\ v # "" /\ v \notin Odd
    BY Zenon, <2>1
  <2>. QED  BY Zenon, <2>1, <2>2, NormalStays
<1>2. CASE f = "geoip"
  <2>1. /\ RuleValue(f, w) = {Upper(w)} \ ({""} \cup Odd)
        /\ RuleValue(f, v) = {Upper(v)} \ ({""} \cup Odd)
    BY Zenon, <1>2, RuleValueIs
  <2>2. v = Upper(w) /\ v # "" /\ v \notin Odd
    BY Zenon, <2>1
  <2>. QED  BY Zenon, <2>1, <2>2, UpperStays
<1>3. CASE f \notin DomainField /\ f # "geoip"
  <2>1. RuleValue(f, w) = {w} /\ RuleValue(f, v) = {v}
    BY Zenon, <1>3, RuleValueIs
  <2>. QED  BY Zenon, <2>1
<1>. QED  BY Zenon, <1>1, <1>2, <1>3

-----------------------------------------------------------------------------
(***************************************************************************)
(* Rule::parse_compact, by the keyword of the line.                        *)
(***************************************************************************)

LEMMA MatchLine ==
    ASSUME NEW line, Upper(line[1]) = "MATCH"
    PROVE  ParseCompact(line) = ParseMatch(line)
<1>1. FieldAt(Upper(line[1])) = 0
  BY Zenon, NoWordAt, FieldsDiffer
<1>. QED  BY Zenon, <1>1 DEF ParseCompact

LEMMA FieldLine ==
    ASSUME NEW line, NEW k \in 1 .. 9, Upper(line[1]) = FieldWords[k]
    PROVE  ParseCompact(line) = ParseField(line, Fields[k])
<1>1. FieldAt(Upper(line[1])) = k
  BY Zenon, WordAt
<1>2. Upper(line[1]) # "MATCH" /\ k # 0
  BY FieldsDiffer
<1>. QED  BY Zenon, <1>1, <1>2 DEF ParseCompact

LEMMA OtherLine ==
    ASSUME NEW line, Upper(line[1]) # "MATCH", \A k \in 1 .. 9 : Upper(line[1]) # FieldWords[k]
    PROVE  ParseCompact(line) = {}
<1>1. FieldAt(Upper(line[1])) = 0
  BY Zenon, NoWordAt
<1>. QED  BY Zenon, <1>1 DEF ParseCompact

\* parse_field_rule_parts of a line with three words, the second not empty.
LEMMA FieldParts ==
    ASSUME NEW line, Len(line) = 3, line[2] # ""
    PROVE  ParseFieldRuleParts(line) = {[value |-> line[2], action |-> a] : a \in ParseAction(line[3])}
BY Zenon DEF ParseFieldRuleParts

LEMMA NoFieldParts ==
    ASSUME NEW line, ~(Len(line) = 3 /\ line[2] # "")
    PROVE  ParseFieldRuleParts(line) = {}
BY Zenon DEF ParseFieldRuleParts

\* The rules of a line whose keyword is that of a condition.
LEMMA FieldRule ==
    ASSUME NEW line, NEW k \in 1 .. 9, Upper(line[1]) = FieldWords[k], NEW r \in ParseCompact(line)
    PROVE  ReadAs(line, k, r)
<1>0. r \in ParseField(line, Fields[k])
  BY Zenon, FieldLine
<1>1. PICK p \in ParseFieldRuleParts(line) :
          r \in {One(k, v, p.action) : v \in RuleValue(Fields[k], p.value)}
  BY Zenon, <1>0 DEF ParseField, One
<1>2. Len(line) = 3 /\ line[2] # ""
  BY Zenon, <1>1, NoFieldParts
<1>3. PICK a \in ParseAction(line[3]) : p = [value |-> line[2], action |-> a]
  <2>1. ParseFieldRuleParts(line) = {[value |-> line[2], action |-> a] : a \in ParseAction(line[3])}
    BY Zenon, <1>2, FieldParts
  <2>. QED  BY Zenon, <1>1, <2>1
<1>4. p.value = line[2] /\ p.action = a
  BY Zenon, <1>3
<1>5. PICK v \in RuleValue(Fields[k], line[2]) : r = One(k, v, a)
  BY Zenon, <1>1, <1>4
<1>. QED  BY Zenon, <1>2, <1>5 DEF ReadAs

LEMMA MatchRule ==
    ASSUME NEW line, Upper(line[1]) = "MATCH", NEW r \in ParseCompact(line)
    PROVE  Len(line) = 2 /\ \E a \in ParseAction(line[2]) : r = All(a)
<1>1. r \in {All(a) : a \in IF Len(line) # 2 THEN {} ELSE ParseAction(line[2])}
  BY Zenon, MatchLine DEF ParseMatch, All
<1>. QED  BY Zenon, <1>1

LEMMA ParsedShape ==
    ASSUME NEW line, NEW r \in ParseCompact(line)
    PROVE  \/ \E a \in Action : r = All(a)
           \/ \E k \in 1 .. 9, a \in Action : \E v : Proper(k, v) /\ r = One(k, v, a)
<1>1. CASE Upper(line[1]) = "MATCH"
  BY Zenon, <1>1, MatchRule, ParsedAction
<1>2. ASSUME NEW k \in 1 .. 9, Upper(line[1]) = FieldWords[k]
      PROVE  \E a \in Action : \E v : Proper(k, v) /\ r = One(k, v, a)
  <2>1. ReadAs(line, k, r)
    BY Zenon, <1>2, FieldRule
  <2>2. PICK v \in RuleValue(Fields[k], line[2]), a \in ParseAction(line[3]) : r = One(k, v, a)
    BY Zenon, <2>1 DEF ReadAs
  <2>4. Proper(k, v)
    BY Zenon, <2>1, <2>2, ValueStays DEF Proper, ReadAs
  <2>3. a \in Action
    BY Zenon, ParsedAction
  <2>. QED  BY Zenon, <2>2, <2>3, <2>4
<1>. QED  BY Zenon, <1>1, <1>2, OtherLine

-----------------------------------------------------------------------------
(***************************************************************************)
(* Display for Rule is undone by Rule::parse_compact.                      *)
(***************************************************************************)

LEMMA CatchAllSaved ==
    ASSUME NEW a \in Action
    PROVE  ParseCompact(Display(All(a))) = {All(a)}
<1>1. Display(All(a)) = <<"MATCH", a>>
  BY Zenon DEF Display, Rule, All
<1>. DEFINE line == <<"MATCH", a>>
<1>2. Len(line) = 2 /\ line[1] = "MATCH" /\ line[2] = a
  BY Zenon
<1>. HIDE DEF line
<1>3. Upper(line[1]) = "MATCH"
  BY Zenon, <1>2, WordsAssumption
<1>4. ParseCompact(line) = ParseMatch(line)
  BY Zenon, <1>3, MatchLine
<1>5. ParseMatch(line) = {All(a)}
  BY Zenon, <1>2, ActionParsed DEF ParseMatch, All
<1>. QED  BY Zenon, <1>1, <1>4, <1>5 DEF line

LEMMA OneParts ==
    ASSUME NEW k \in 1 .. 9, NEW v, NEW a
    PROVE  HasOne(One(k, v, a), k, v, a)
BY DEF One, Rule, HasOne

LEMMA DisplayOne ==
    ASSUME NEW k \in 1 .. 9, NEW v, NEW a
    PROVE  Display(One(k, v, a)) = <<FieldWords[k], v, a>>
<1>. DEFINE r == One(k, v, a)
<1>1. HasOne(r, k, v, a)
  BY Zenon, OneParts
<1>. HIDE DEF r
<1>2. FirstField(r) = k /\ k # 0
  BY <1>1, ConditionAt DEF HasOne
<1>3. Display(r) = <<FieldWords[FirstField(r)], r.when[Fields[FirstField(r)]], r.action>>
  BY Zenon, <1>1, <1>2 DEF Display, HasOne
<1>. QED  BY Zenon, <1>1, <1>2, <1>3 DEF r, HasOne

LEMMA ConditionSaved ==
    ASSUME NEW k \in 1 .. 9, NEW a \in Action, NEW v, Proper(k, v)
    PROVE  ParseCompact(Display(One(k, v, a))) = {One(k, v, a)}
<1>. DEFINE line == <<FieldWords[k], v, a>>
<1>1. Len(line) = 3 /\ line[1] = FieldWords[k] /\ line[2] = v /\ line[3] = a
  BY Zenon
<1>. HIDE DEF line
<1>2. Upper(line[1]) = FieldWords[k]
  BY Zenon, <1>1, WordsAssumption, FieldsDomain
<1>3. ParseFieldRuleParts(line) = {[value |-> v, action |-> b] : b \in ParseAction(a)}
  <2>1. line[2] # ""
    BY Zenon, <1>1 DEF Proper
  <2>2. ParseFieldRuleParts(line) = {[value |-> line[2], action |-> b] : b \in ParseAction(line[3])}
    BY Zenon, <1>1, <2>1, FieldParts
  <2>. QED  BY Zenon, <1>1, <2>2
<1>4. ParseFieldRuleParts(line) = {[value |-> v, action |-> a]}
  BY Zenon, <1>3, ActionParsed
<1>5. ParseField(line, Fields[k]) = {One(k, v, a)}
  <2>1. RuleValue(Fields[k], v) = {v}
    BY Zenon DEF Proper
  <2>. DEFINE p == [value |-> v, action |-> a]
  <2>2. p.value = v /\ p.action = a
    BY Zenon
  <2>. HIDE DEF p
  <2>3. ParseFieldRuleParts(line) = {p}
    BY Zenon, <1>4 DEF p
  <2>4. ParseField(line, Fields[k]) = {One(k, u, p.action) : u \in RuleValue(Fields[k], p.value)}
    BY Zenon, <2>3 DEF ParseField, One
  <2>. QED  BY Zenon, <2>1, <2>2, <2>4
<1>6. ParseCompact(line) = ParseField(line, Fields[k])
  BY Zenon, <1>2, FieldLine
<1>. QED  BY Zenon, <1>5, <1>6, DisplayOne DEF line

\* What is displayed is read back.
LEMMA RuleSaved ==
    ASSUME NEW line, NEW r \in ParseCompact(line)
    PROVE  ParseCompact(Display(r)) = {r}
<1>1. ASSUME NEW a \in Action, r = All(a) PROVE ParseCompact(Display(r)) = {r}
  BY Zenon, <1>1, CatchAllSaved
<1>2. ASSUME NEW k \in 1 .. 9, NEW a \in Action, NEW v, Proper(k, v), r = One(k, v, a)
      PROVE  ParseCompact(Display(r)) = {r}
  BY Zenon, <1>2, ConditionSaved
<1>. QED  BY Zenon, <1>1, <1>2, ParsedShape

-----------------------------------------------------------------------------
(***************************************************************************)
(* The rules of a running engine are those of the file, line by line, and  *)
(* they were validated.                                                    *)
(***************************************************************************)

\* The i-th rule stands for the i-th line.
OfLines(rules, lines) ==
    /\ DOMAIN rules = DOMAIN lines
    /\ rules = [i \in DOMAIN lines |-> rules[i]]
    /\ \A i \in DOMAIN lines : rules[i] \in ParseCompact(lines[i])

LEMMA ParsedRules ==
    ASSUME NEW lines, NEW rules \in ParseRules(lines)
    PROVE  OfLines(rules, lines)
<1>1. \A i \in DOMAIN lines : ParseCompact(lines[i]) # {}
  BY Zenon DEF ParseRules
<1>2. rules = [i \in DOMAIN lines |-> CHOOSE r \in ParseCompact(lines[i]) : TRUE]
  BY Zenon, <1>1 DEF ParseRules
<1>3. \A i \in DOMAIN lines : (CHOOSE r \in ParseCompact(lines[i]) : TRUE) \in ParseCompact(lines[i])
  BY Zenon, <1>1
<1>. QED  BY <1>2, <1>3 DEF OfLines

LEMMA RulesSaved ==
    ASSUME NEW lines, NEW rules, OfLines(rules, lines)
    PROVE  ParseRules([i \in DOMAIN rules |-> Display(rules[i])]) = {rules}
<1>. DEFINE saved == [i \in DOMAIN rules |-> Display(rules[i])]
<1>1. DOMAIN saved = DOMAIN rules
  BY Zenon
<1>2. \A i \in DOMAIN rules : ParseCompact(saved[i]) = {rules[i]}
  BY Zenon, RuleSaved DEF OfLines
<1>. HIDE DEF saved
<1>3. ParseRules(saved) = {[i \in DOMAIN saved |-> CHOOSE r \in ParseCompact(saved[i]) : TRUE]}
  BY Zenon, <1>1, <1>2 DEF ParseRules
<1>4. \A i \in DOMAIN rules : (CHOOSE r \in ParseCompact(saved[i]) : TRUE) = rules[i]
  BY <1>2
<1>5. [i \in DOMAIN saved |-> CHOOSE r \in ParseCompact(saved[i]) : TRUE] = rules
  BY Zenon, <1>1, <1>4 DEF OfLines
<1>. QED  BY Zenon, <1>3, <1>5 DEF saved

\* The inductive invariant behind SavedIsSame and EngineIsUnderstood.
RulesInv ==
    /\ file \in Files \cup {NoFile, Defaults}
    /\ Ready => /\ file \in Files \cup {Defaults}
                /\ OfLines(engine.rules, file.rules)
                /\ Validate(engine.rules)

LEMMA EngineIs ==
    ASSUME NEW rs, NEW db
    PROVE  Engine(rs, db).state = "ready" /\ Engine(rs, db).rules = rs
BY Zenon DEF Engine

LEMMA RulesStep ==
    ASSUME RulesInv, [Next]_vars
    PROVE  RulesInv'
<1>1. CASE Start
  <2>1. file' \in Files \cup {Defaults}
    BY Zenon, <1>1 DEF Start, RulesInv
  <2>2. CASE engine' = Refused
    <3>1. ~Ready'
      BY Zenon, <2>2 DEF Ready, Refused
    <3>. QED  BY Zenon, <2>1, <3>1 DEF RulesInv
  <2>3. ASSUME NEW rs \in ParseRules(file'.rules), Validate(rs), NEW db, engine' = Engine(rs, db)
        PROVE  RulesInv'
    <3>1. engine'.rules = rs /\ OfLines(rs, file'.rules)
      BY Zenon, <2>3, ParsedRules, EngineIs
    <3>. QED  BY Zenon, <2>1, <2>3, <3>1 DEF RulesInv
  <2>. QED  BY Zenon, <1>1, <2>2, <2>3 DEF Start
<1>2. CASE Reconnect
  <2>1. PICK db : engine' = Engine(engine.rules, db)
    BY Zenon, <1>2 DEF Reconnect
  <2>2. engine'.rules = engine.rules /\ Ready /\ file' = file
    BY Zenon, <1>2, <2>1, EngineIs DEF Reconnect
  <2>. QED  BY Zenon, <2>2 DEF RulesInv
<1>3. CASE UNCHANGED <<file, engine>>
  BY Zenon, <1>3 DEF RulesInv, Ready
<1>4. CASE Tick \/ \E as \in Responses : Observe(as)
  BY Zenon, <1>3, <1>4 DEF Tick, Observe
<1>5. CASE \E p \in Packets : Route(p)
  BY Zenon, <1>3, <1>5 DEF Route
<1>6. CASE UNCHANGED vars
  BY Zenon, <1>3, <1>6 DEF vars
<1>. QED  BY Zenon, <1>1, <1>2, <1>4, <1>5, <1>6 DEF Next

\* A running engine has the rules of its file, whatever was loaded and however
\* often the client reconnected.
THEOREM RulesOfTheFile == Spec => []RulesInv
<1>1. Init => RulesInv
  BY DEF Init, RulesInv, Ready, NotStarted
<1>2. RulesInv /\ [Next]_vars => RulesInv'
  BY Zenon, RulesStep
<1>. QED  BY <1>1, <1>2, PTL DEF Spec

\* save_to_file writes rules that are read back as the same rules, for every file
\* the client accepts: Display for Rule is undone by parse_compact.
THEOREM SavedRules == Spec => []SavedIsSame
<1>1. RulesInv => SavedIsSame
  BY Zenon, RulesSaved DEF RulesInv, SavedIsSame
<1>. QED  BY <1>1, RulesOfTheFile, PTL

-----------------------------------------------------------------------------
(***************************************************************************)
(* Every condition of a running engine can be evaluated.                   *)
(***************************************************************************)

LEMMA SplitType ==
    ASSUME NEW w
    PROVE  LET ps == Split(w) IN Len(ps) \in Nat /\ Len(ps) >= 1 /\ DOMAIN ps = 1 .. Len(ps)
<1>1. CASE w \in DOMAIN Dashes
  BY <1>1, WordsAssumption DEF Split
<1>2. CASE w \notin DOMAIN Dashes
  BY <1>2 DEF Split
<1>. QED  BY Zenon, <1>1, <1>2

\* The ports between which a text that parse_port_range accepts lies.
Low(w) == Number[Split(w)[1]]

High(w) == Number[Split(w)[Len(Split(w))]]

LEMMA PortRange ==
    ASSUME NEW w, ParsePortRange(w) # {}
    PROVE  /\ ParsePortRange(w) = {Low(w) .. High(w)}
           /\ Low(w) \in Nat /\ High(w) \in Nat /\ Low(w) <= High(w)
<1>. DEFINE ps == Split(w)
<1>1. Len(ps) \in Nat /\ Len(ps) >= 1 /\ DOMAIN ps = 1 .. Len(ps)
  BY Zenon, SplitType
<1>2. /\ ToSet(ps) \subseteq DOMAIN Number
      /\ ~(Low(w) > High(w))
      /\ ParsePortRange(w) = {Low(w) .. High(w)}
  BY Zenon DEF ParsePortRange, Low, High
<1>. HIDE DEF ps
<1>3. ps[1] \in DOMAIN Number /\ ps[Len(ps)] \in DOMAIN Number
  BY <1>1, <1>2 DEF ToSet
<1>4. Number[ps[1]] \in Nat /\ Number[ps[Len(ps)]] \in Nat
  BY Zenon, <1>3, WordsAssumption
<1>5. Low(w) \in Nat /\ High(w) \in Nat
  BY Zenon, <1>4 DEF Low, High, ps
<1>. QED  BY <1>2, <1>5

LEMMA ValidIs ==
    ASSUME NEW f, NEW w, ValidCondition(f, w)
    PROVE  /\ f \in CidrField => w \in DOMAIN Network
           /\ f \in PortField => ParsePortRange(w) # {}
           /\ f = "proto" => ProtocolFromStr(w) # {}
<1>1. /\ f \in CidrField => f \notin PortField /\ f # "proto"
      /\ f \in PortField => f # "proto"
  BY Zenon DEF CidrField, PortField
<1>. QED  BY Zenon, <1>1 DEF ValidCondition

\* A domain in a rule is spelt as the cache spells it.
LEMMA DomainSpelt ==
    ASSUME NEW line, NEW r \in ParseCompact(line), NEW f \in DOMAIN r.when, f \in DomainField
    PROVE  Normalize(r.when[f]) = r.when[f]
<1>1. ASSUME NEW a, r = All(a) PROVE FALSE
  BY Zenon, <1>1 DEF All, Rule, NoCondition
<1>2. ASSUME NEW k \in 1 .. 9, NEW a, NEW v, Proper(k, v), r = One(k, v, a)
      PROVE  Normalize(r.when[f]) = r.when[f]
  <2>1. HasOne(r, k, v, a)
    BY Zenon, <1>2, OneParts
  <2>2. f = Fields[k] /\ r.when[f] = v
    BY Zenon, <2>1 DEF HasOne
  <2>3. RuleValue(f, v) = {v} /\ RuleValue(f, v) = {Normalize(v)} \ ({""} \cup Odd)
    BY Zenon, <1>2, <2>2, RuleValueIs DEF Proper
  <2>. QED  BY Zenon, <2>2, <2>3
<1>. QED  BY Zenon, <1>1, <1>2, ParsedShape

\* Each condition of each rule of a running engine has a text its matcher reads:
\* validate refuses the others, and no reconnection brings them back.
THEOREM EngineUnderstood == Spec => []EngineIsUnderstood
<1>1. ASSUME RulesInv PROVE EngineIsUnderstood
  <2>1. SUFFICES ASSUME Ready, NEW i \in DOMAIN engine.rules
        PROVE  LET when == engine.rules[i].when IN
               /\ \A f \in DOMAIN when \cap CidrField : when[f] \in DOMAIN Network
               /\ \A f \in DOMAIN when \cap PortField : \E r \in ParsePortRange(when[f]) : r # {}
               /\ \A f \in DOMAIN when \cap {"proto"} : ProtocolFromStr(when[f]) # {}
               /\ \A f \in DOMAIN when \cap DomainField : Normalize(when[f]) = when[f]
    BY Zenon DEF EngineIsUnderstood
  <2>. DEFINE rule == engine.rules[i]
  <2>2. /\ rule \in ParseCompact(file.rules[i])
        /\ \A f \in DOMAIN rule.when : ValidCondition(f, rule.when[f])
    BY Zenon, <1>1, <2>1 DEF RulesInv, OfLines, Validate
  <2>. HIDE DEF rule
  <2>3. ASSUME NEW f \in DOMAIN rule.when
        PROVE  /\ f \in CidrField => rule.when[f] \in DOMAIN Network
               /\ f \in PortField => ParsePortRange(rule.when[f]) # {}
               /\ f = "proto" => ProtocolFromStr(rule.when[f]) # {}
    BY Zenon, <2>2, <2>3, ValidIs
  <2>4. ASSUME NEW f \in DOMAIN rule.when, f \in PortField
        PROVE  \E r \in ParsePortRange(rule.when[f]) : r # {}
    <3>1. ParsePortRange(rule.when[f]) # {}
      BY Zenon, <2>3, <2>4
    <3>. DEFINE w == rule.when[f]
    <3>2. /\ ParsePortRange(w) = {Low(w) .. High(w)}
          /\ Low(w) \in Nat /\ High(w) \in Nat /\ Low(w) <= High(w)
      BY Zenon, <3>1, PortRange
    <3>. HIDE DEF w
    <3>3. Low(w) \in Low(w) .. High(w)
      BY <3>2
    <3>. QED  BY Zenon, <3>2, <3>3 DEF w
  <2>5. ASSUME NEW f \in DOMAIN rule.when, f \in DomainField
        PROVE  Normalize(rule.when[f]) = rule.when[f]
    BY Zenon, <2>2, <2>5, DomainSpelt
  <2>. QED  BY Zenon, <2>3, <2>4, <2>5 DEF rule
<1>. QED  BY <1>1, RulesOfTheFile, PTL

-----------------------------------------------------------------------------
(***************************************************************************)
(* A rule accepts the packets that its line speaks of.                     *)
(***************************************************************************)

LEMMA RuleSrcCidr ==
    ASSUME NEW r, NEW f, DOMAIN r.when = {f}, f = "src_ip_cidr", NEW p, NEW ds
    PROVE  Matches(r, p, ds) <=> MatchesIp(r.when[f], p.src_ip)
BY Zenon DEF Matches, PortField, DomainField

LEMMA RuleDstCidr ==
    ASSUME NEW r, NEW f, DOMAIN r.when = {f}, f = "dst_ip_cidr", NEW p, NEW ds
    PROVE  Matches(r, p, ds) <=> MatchesIp(r.when[f], p.dst_ip)
BY Zenon DEF Matches, PortField, DomainField

LEMMA RuleSrcPort ==
    ASSUME NEW r, NEW f, DOMAIN r.when = {f}, f = "src_port", NEW p, NEW ds
    PROVE  Matches(r, p, ds) <=> MatchesPort(r.when[f], p.src_port)
BY Zenon DEF Matches, PortField, DomainField

LEMMA RuleDstPort ==
    ASSUME NEW r, NEW f, DOMAIN r.when = {f}, f = "dst_port", NEW p, NEW ds
    PROVE  Matches(r, p, ds) <=> MatchesPort(r.when[f], p.dst_port)
BY Zenon DEF Matches, PortField, DomainField

LEMMA RuleProto ==
    ASSUME NEW r, NEW f, DOMAIN r.when = {f}, f = "proto", NEW p, NEW ds
    PROVE  Matches(r, p, ds) <=> MatchesProtocol(r.when[f], p.proto)
BY Zenon DEF Matches, PortField, DomainField

LEMMA RuleGeoip ==
    ASSUME NEW r, NEW f, DOMAIN r.when = {f}, f = "geoip", NEW p, NEW ds
    PROVE  Matches(r, p, ds) <=> MatchesGeoip(r.when[f], p.dst_ip)
BY Zenon DEF Matches, PortField, DomainField

LEMMA RuleName ==
    ASSUME NEW r, NEW f, DOMAIN r.when = {f}, f \in DomainField, NEW p, NEW ds
    PROVE  Matches(r, p, ds) <=> MatchesDomain(f, r.when[f], ds)
<1>1. f \notin PortField \cup {"src_ip_cidr", "dst_ip_cidr", "proto", "geoip"}
  BY Zenon DEF PortField, DomainField
<1>. QED  BY Zenon, <1>1 DEF Matches

\* The names in a sequence of names.
In(ds) == {ds[i] : i \in DOMAIN ds}

LEMMA DomainMatches ==
    ASSUME NEW w, NEW ds
    PROVE  /\ MatchesDomain("domain", w, ds) <=> w \in In(ds)
           /\ MatchesDomain("domain_suffix", w, ds) <=> In(ds) \cap ({w} \cup Below[w]) # {}
           /\ MatchesDomain("domain_keyword", w, ds) <=> In(ds) \cap Containing[w] # {}
<1>1. /\ MatchesDomain("domain", w, ds) <=> \E i \in DOMAIN ds : ds[i] = w
      /\ MatchesDomain("domain_suffix", w, ds) <=>
             \E i \in DOMAIN ds : ds[i] = w \/ ds[i] \in Below[w]
      /\ MatchesDomain("domain_keyword", w, ds) <=> \E i \in DOMAIN ds : ds[i] \in Containing[w]
  BY Zenon DEF MatchesDomain
<1>. QED  BY Zenon, <1>1 DEF In

\* What a line says, by its keyword.
LEMMA LineMatch ==
    ASSUME NEW line, Upper(line[1]) = "MATCH", NEW p, NEW names
    PROVE  Says(line, p, names)
BY Zenon DEF Says

LEMMA LineSrcCidr ==
    ASSUME NEW line, Upper(line[1]) = "SRC-IP-CIDR", NEW p, NEW names
    PROVE  Says(line, p, names) <=>
               p.src_ip \in Network[line[2]]
BY Zenon DEF Says

LEMMA LineDstCidr ==
    ASSUME NEW line, Upper(line[1]) = "DST-IP-CIDR", NEW p, NEW names
    PROVE  Says(line, p, names) <=>
               p.dst_ip \in Network[line[2]]
BY Zenon DEF Says

LEMMA LineSrcPort ==
    ASSUME NEW line, Upper(line[1]) = "SRC-PORT", NEW p, NEW names
    PROVE  Says(line, p, names) <=>
               p.src_port # NoPort /\ Low(line[2]) <= p.src_port /\ p.src_port <= High(line[2])
BY Zenon DEF Says, Low, High

LEMMA LineDstPort ==
    ASSUME NEW line, Upper(line[1]) = "DST-PORT", NEW p, NEW names
    PROVE  Says(line, p, names) <=>
               p.dst_port # NoPort /\ Low(line[2]) <= p.dst_port /\ p.dst_port <= High(line[2])
BY Zenon DEF Says, Low, High

LEMMA LineProto ==
    ASSUME NEW line, Upper(line[1]) = "PROTO", NEW p, NEW names
    PROVE  Says(line, p, names) <=>
               p.proto = Lower(line[2])
BY Zenon DEF Says

LEMMA LineDomain ==
    ASSUME NEW line, Upper(line[1]) = "DOMAIN", NEW p, NEW names
    PROVE  Says(line, p, names) <=>
               Normalize(line[2]) \in names
BY Zenon DEF Says

LEMMA LineSuffix ==
    ASSUME NEW line, Upper(line[1]) = "DOMAIN-SUFFIX", NEW p, NEW names
    PROVE  Says(line, p, names) <=>
               names \cap ({Normalize(line[2])} \cup Below[Normalize(line[2])]) # {}
BY Zenon DEF Says

LEMMA LineKeyword ==
    ASSUME NEW line, Upper(line[1]) = "DOMAIN-KEYWORD", NEW p, NEW names
    PROVE  Says(line, p, names) <=>
               names \cap Containing[Normalize(line[2])] # {}
BY Zenon DEF Says

LEMMA LineGeoip ==
    ASSUME NEW line, Upper(line[1]) = "GEOIP", NEW p, NEW names
    PROVE  Says(line, p, names) <=>
               IF Upper(line[2]) = "PRIVATE" THEN p.dst_ip \in Private
               ELSE engine.db /\ Upper(line[2]) \in Country[p.dst_ip]
BY Zenon DEF Says

\* A line with a keyword of a condition, and the rule it stands for.
LEMMA FieldMatches ==
    ASSUME NEW line, NEW k \in 1 .. 9, Upper(line[1]) = FieldWords[k],
           NEW r, DOMAIN r.when = {Fields[k]},
           NEW v \in RuleValue(Fields[k], line[2]), r.when[Fields[k]] = v,
           ValidCondition(Fields[k], v),
           NEW p \in Packets, p.version = 4, NEW ds
    PROVE  Matches(r, p, ds) <=> Says(line, p, In(ds))
<1>1. Upper(line[1]) = FieldWords[k]
  BY Zenon
<1>2. DOMAIN r.when = {Fields[k]}
  BY Zenon
<1>3. r.when[Fields[k]] = v
  BY Zenon
<1>4. Fields[k] \notin DomainField /\ Fields[k] # "geoip" => line[2] = v
  <2>1. Fields[k] \notin DomainField /\ Fields[k] # "geoip" => RuleValue(Fields[k], line[2]) = {line[2]}
    BY Zenon, RuleValueIs
  <2>. QED  BY Zenon, <2>1
<1>5. ValidCondition(Fields[k], v)
  BY Zenon
<1>6. Fields[k] \in DomainField => v = Normalize(line[2])
  <2>1. Fields[k] \in DomainField => RuleValue(Fields[k], line[2]) = {Normalize(line[2])} \ ({""} \cup Odd)
    BY Zenon, RuleValueIs
  <2>. QED  BY Zenon, <2>1
<1>7. Fields[k] = "geoip" => v = Upper(line[2])
  <2>1. Fields[k] = "geoip" => RuleValue(Fields[k], line[2]) = {Upper(line[2])} \ ({""} \cup Odd)
    BY Zenon, RuleValueIs
  <2>. QED  BY Zenon, <2>1
<1>8. ASSUME Fields[k] = "src_ip_cidr", FieldWords[k] = "SRC-IP-CIDR"
      PROVE  Matches(r, p, ds) <=> Says(line, p, In(ds))
  <2>1. v \in DOMAIN Network
    BY Zenon, <1>5, <1>8, ValidIs DEF CidrField
  <2>2. Says(line, p, In(ds)) <=> p.src_ip \in Network[v]
    BY Zenon, <1>1, <1>4, <1>8, LineSrcCidr DEF DomainField
  <2>3. Matches(r, p, ds) <=> MatchesIp(v, p.src_ip)
    BY Zenon, <1>2, <1>3, <1>8, RuleSrcCidr
  <2>. QED  BY Zenon, <2>1, <2>2, <2>3 DEF MatchesIp
<1>9. ASSUME Fields[k] = "dst_ip_cidr", FieldWords[k] = "DST-IP-CIDR"
      PROVE  Matches(r, p, ds) <=> Says(line, p, In(ds))
  <2>1. v \in DOMAIN Network
    BY Zenon, <1>5, <1>9, ValidIs DEF CidrField
  <2>2. Says(line, p, In(ds)) <=> p.dst_ip \in Network[v]
    BY Zenon, <1>1, <1>4, <1>9, LineDstCidr DEF DomainField
  <2>3. Matches(r, p, ds) <=> MatchesIp(v, p.dst_ip)
    BY Zenon, <1>2, <1>3, <1>9, RuleDstCidr
  <2>. QED  BY Zenon, <2>1, <2>2, <2>3 DEF MatchesIp
<1>10. ASSUME Fields[k] = "src_port", FieldWords[k] = "SRC-PORT"
      PROVE  Matches(r, p, ds) <=> Says(line, p, In(ds))
  <2>1. Matches(r, p, ds) <=> MatchesPort(v, p.src_port)
    BY Zenon, <1>2, <1>3, <1>10, RuleSrcPort
  <2>2. Says(line, p, In(ds)) <=> p.src_port # NoPort /\ Low(v) <= p.src_port /\ p.src_port <= High(v)
    BY Zenon, <1>1, <1>4, <1>10, LineSrcPort DEF DomainField
  <2>3. ParsePortRange(v) # {}
    BY Zenon, <1>5, <1>10, ValidIs DEF PortField
  <2>4. ParsePortRange(v) = {Low(v) .. High(v)} /\ Low(v) \in Nat /\ High(v) \in Nat
    BY Zenon, <2>3, PortRange
  <2>5. MatchesPort(v, p.src_port) <=> p.src_port # NoPort /\ p.src_port \in Low(v) .. High(v)
    BY Zenon, <2>4 DEF MatchesPort
  <2>6. p.src_port # NoPort => p.src_port \in Nat
    BY Zenon, RouterAssumption
  <2>. QED  BY SMTT(30), <2>1, <2>2, <2>4, <2>5, <2>6
<1>11. ASSUME Fields[k] = "dst_port", FieldWords[k] = "DST-PORT"
      PROVE  Matches(r, p, ds) <=> Says(line, p, In(ds))
  <2>1. Matches(r, p, ds) <=> MatchesPort(v, p.dst_port)
    BY Zenon, <1>2, <1>3, <1>11, RuleDstPort
  <2>2. Says(line, p, In(ds)) <=> p.dst_port # NoPort /\ Low(v) <= p.dst_port /\ p.dst_port <= High(v)
    BY Zenon, <1>1, <1>4, <1>11, LineDstPort DEF DomainField
  <2>3. ParsePortRange(v) # {}
    BY Zenon, <1>5, <1>11, ValidIs DEF PortField
  <2>4. ParsePortRange(v) = {Low(v) .. High(v)} /\ Low(v) \in Nat /\ High(v) \in Nat
    BY Zenon, <2>3, PortRange
  <2>5. MatchesPort(v, p.dst_port) <=> p.dst_port # NoPort /\ p.dst_port \in Low(v) .. High(v)
    BY Zenon, <2>4 DEF MatchesPort
  <2>6. p.dst_port # NoPort => p.dst_port \in Nat
    BY Zenon, RouterAssumption
  <2>. QED  BY SMTT(30), <2>1, <2>2, <2>4, <2>5, <2>6
<1>12. ASSUME Fields[k] = "proto", FieldWords[k] = "PROTO"
      PROVE  Matches(r, p, ds) <=> Says(line, p, In(ds))
  <2>1. Matches(r, p, ds) <=> MatchesProtocol(v, p.proto)
    BY Zenon, <1>2, <1>3, <1>12, RuleProto
  <2>2. Says(line, p, In(ds)) <=> p.proto = Lower(v)
    BY Zenon, <1>1, <1>4, <1>12, LineProto DEF DomainField
  <2>3. ProtocolFromStr(v) # {}
    BY Zenon, <1>5, <1>12, ValidIs
  <2>4. ProtocolFromStr(v) = {Lower(v)}
    BY Zenon, <2>3 DEF ProtocolFromStr
  <2>. QED  BY Zenon, <2>1, <2>2, <2>4 DEF MatchesProtocol
<1>13. ASSUME Fields[k] = "domain", FieldWords[k] = "DOMAIN"
      PROVE  Matches(r, p, ds) <=> Says(line, p, In(ds))
  <2>1. v = Normalize(line[2])
    BY Zenon, <1>6, <1>13 DEF DomainField
  <2>2. Says(line, p, In(ds)) <=> v \in In(ds)
    <3>1. Upper(line[1]) = "DOMAIN"
      BY Zenon, <1>1, <1>13
    <3>. QED  BY Zenon, <2>1, <3>1, LineDomain
  <2>3. Matches(r, p, ds) <=> MatchesDomain("domain", v, ds)
    BY Zenon, <1>2, <1>3, <1>13, RuleName DEF DomainField
  <2>. QED  BY Zenon, <2>2, <2>3, DomainMatches
<1>14. ASSUME Fields[k] = "domain_suffix", FieldWords[k] = "DOMAIN-SUFFIX"
      PROVE  Matches(r, p, ds) <=> Says(line, p, In(ds))
  <2>1. v = Normalize(line[2])
    BY Zenon, <1>6, <1>14 DEF DomainField
  <2>2. Says(line, p, In(ds)) <=> In(ds) \cap ({v} \cup Below[v]) # {}
    <3>1. Upper(line[1]) = "DOMAIN-SUFFIX"
      BY Zenon, <1>1, <1>14
    <3>. QED  BY Zenon, <2>1, <3>1, LineSuffix
  <2>3. Matches(r, p, ds) <=> MatchesDomain("domain_suffix", v, ds)
    BY Zenon, <1>2, <1>3, <1>14, RuleName DEF DomainField
  <2>. QED  BY Zenon, <2>2, <2>3, DomainMatches
<1>15. ASSUME Fields[k] = "domain_keyword", FieldWords[k] = "DOMAIN-KEYWORD"
      PROVE  Matches(r, p, ds) <=> Says(line, p, In(ds))
  <2>1. v = Normalize(line[2])
    BY Zenon, <1>6, <1>15 DEF DomainField
  <2>2. Says(line, p, In(ds)) <=> In(ds) \cap Containing[v] # {}
    <3>1. Upper(line[1]) = "DOMAIN-KEYWORD"
      BY Zenon, <1>1, <1>15
    <3>. QED  BY Zenon, <2>1, <3>1, LineKeyword
  <2>3. Matches(r, p, ds) <=> MatchesDomain("domain_keyword", v, ds)
    BY Zenon, <1>2, <1>3, <1>15, RuleName DEF DomainField
  <2>. QED  BY Zenon, <2>2, <2>3, DomainMatches
<1>16. ASSUME Fields[k] = "geoip", FieldWords[k] = "GEOIP"
      PROVE  Matches(r, p, ds) <=> Says(line, p, In(ds))
  <2>1. v = Upper(line[2]) /\ Upper(v) = v
    BY Zenon, <1>7, <1>16, UpperStays
  <2>2. Says(line, p, In(ds)) <=> IF v = "PRIVATE" THEN p.dst_ip \in Private
                                  ELSE engine.db /\ v \in Country[p.dst_ip]
    BY Zenon, <1>1, <1>16, <2>1, LineGeoip
  <2>3. Matches(r, p, ds) <=> MatchesGeoip(v, p.dst_ip)
    BY Zenon, <1>2, <1>3, <1>16, RuleGeoip
  <2>. QED  BY Zenon, <2>1, <2>2, <2>3 DEF MatchesGeoip
<1>17. \/ Fields[k] = "src_ip_cidr" /\ FieldWords[k] = "SRC-IP-CIDR"
       \/ Fields[k] = "dst_ip_cidr" /\ FieldWords[k] = "DST-IP-CIDR"
       \/ Fields[k] = "src_port" /\ FieldWords[k] = "SRC-PORT"
       \/ Fields[k] = "dst_port" /\ FieldWords[k] = "DST-PORT"
       \/ Fields[k] = "proto" /\ FieldWords[k] = "PROTO"
       \/ Fields[k] = "domain" /\ FieldWords[k] = "DOMAIN"
       \/ Fields[k] = "domain_suffix" /\ FieldWords[k] = "DOMAIN-SUFFIX"
       \/ Fields[k] = "domain_keyword" /\ FieldWords[k] = "DOMAIN-KEYWORD"
       \/ Fields[k] = "geoip" /\ FieldWords[k] = "GEOIP"
  BY DEF Fields, FieldWords
<1>. QED  BY Zenon, <1>8, <1>9, <1>10, <1>11, <1>12, <1>13, <1>14, <1>15, <1>16, <1>17

\* A rule accepts exactly the IPv4 packets its line speaks of.
LEMMA LineMatches ==
    ASSUME NEW line, NEW r \in ParseCompact(line),
           \A f \in DOMAIN r.when : ValidCondition(f, r.when[f]),
           NEW p \in Packets, p.version = 4, NEW ds
    PROVE  Matches(r, p, ds) <=> Says(line, p, In(ds))
<1>1. CASE Upper(line[1]) = "MATCH"
  <2>1. PICK a : r = All(a)
    BY Zenon, <1>1, MatchRule
  <2>2. DOMAIN r.when = {}
    BY Zenon, <2>1 DEF All, Rule, NoCondition
  <2>3. Matches(r, p, ds)
    BY Zenon, <2>2 DEF Matches
  <2>4. Says(line, p, In(ds))
    BY Zenon, <1>1, LineMatch
  <2>. QED  BY Zenon, <2>3, <2>4
<1>2. ASSUME NEW k \in 1 .. 9, Upper(line[1]) = FieldWords[k]
      PROVE  Matches(r, p, ds) <=> Says(line, p, In(ds))
  <2>1. ReadAs(line, k, r)
    BY Zenon, <1>2, FieldRule
  <2>2. PICK v \in RuleValue(Fields[k], line[2]), a \in ParseAction(line[3]) : r = One(k, v, a)
    BY Zenon, <2>1 DEF ReadAs
  <2>3. HasOne(r, k, v, a)
    BY Zenon, <2>2, OneParts
  <2>4. DOMAIN r.when = {Fields[k]} /\ r.when[Fields[k]] = v
    BY Zenon, <2>3 DEF HasOne
  <2>5. ValidCondition(Fields[k], v)
    BY Zenon, <2>4
  <2>. QED  BY Zenon, <1>2, <2>4, <2>5, FieldMatches
<1>. QED  BY Zenon, <1>1, <1>2, OtherLine

-----------------------------------------------------------------------------
(***************************************************************************)
(* The first line that accepts a packet decides where it goes.             *)
(***************************************************************************)

LEMMA FileLines ==
    ASSUME NEW f \in Files \cup {Defaults}
    PROVE  f.rules \in Seq(Seq(STRING))
<1>1. Defaults.rules \in Seq(Seq(STRING))
  BY DEF Defaults
<1>2. \A g \in Files : g.rules \in Seq(Seq(STRING))
  BY Zenon, RouterAssumption
<1>. QED  BY Zenon, <1>1, <1>2

\* The rules of a running engine are a sequence, as long as the file's.
LEMMA RulesLength ==
    ASSUME RulesInv, Ready
    PROVE  /\ Len(engine.rules) = Len(file.rules) /\ Len(file.rules) \in Nat
           /\ DOMAIN file.rules = 1 .. Len(file.rules)
           /\ DOMAIN engine.rules = 1 .. Len(file.rules)
<1>. DEFINE rules == engine.rules
            n == Len(file.rules)
            S == {rules[i] : i \in 1 .. n}
<1>1. file.rules \in Seq(Seq(STRING))
  BY Zenon, FileLines DEF RulesInv
<1>2. n \in Nat /\ DOMAIN file.rules = 1 .. n
  BY Zenon, <1>1, LenProperties
<1>3. DOMAIN rules = 1 .. n /\ rules = [i \in 1 .. n |-> rules[i]]
  BY Zenon, <1>2 DEF RulesInv, OfLines
<1>. HIDE DEF rules, n
<1>4. rules \in [1 .. n -> S]
  BY Zenon, <1>3
<1>5. rules \in Seq(S)
  BY Zenon, <1>2, <1>4, SeqDef
<1>6. Len(rules) \in Nat /\ DOMAIN rules = 1 .. Len(rules)
  BY Zenon, <1>5, LenProperties
<1>7. Len(rules) = n
  BY SMTT(30), <1>2, <1>3, <1>6
<1>. QED  BY Zenon, <1>2, <1>3, <1>7 DEF rules, n

\* The lines that speak of a packet, given the names its destination has.
Hits(p, names) == {i \in DOMAIN file.rules : Says(file.rules[i], p, names)}

\* The action of the first of them, or Direct.
DecidedBy(to, hit) ==
    \/ hit = {} /\ to = "Direct"
    \/ \E i \in hit : (\A j \in hit : i <= j) /\ to \in ParseAction(Last(file.rules[i]))

LEMMA RuleAction ==
    ASSUME NEW line, NEW r \in ParseCompact(line)
    PROVE  r.action \in ParseAction(Last(line))
<1>1. CASE Upper(line[1]) = "MATCH"
  <2>1. Len(line) = 2 /\ \E a \in ParseAction(line[2]) : r = All(a)
    BY Zenon, <1>1, MatchRule
  <2>2. PICK a \in ParseAction(line[2]) : r = All(a)
    BY Zenon, <2>1
  <2>3. r.action = a
    BY Zenon, <2>2 DEF All, Rule
  <2>. QED  BY Zenon, <2>1, <2>3 DEF Last
<1>2. ASSUME NEW k \in 1 .. 9, Upper(line[1]) = FieldWords[k]
      PROVE  r.action \in ParseAction(Last(line))
  <2>1. ReadAs(line, k, r)
    BY Zenon, <1>2, FieldRule
  <2>2. PICK v \in RuleValue(Fields[k], line[2]), a \in ParseAction(line[3]) : r = One(k, v, a)
    BY Zenon, <2>1 DEF ReadAs
  <2>3. r.action = a
    <3>1. HasOne(r, k, v, a)
      BY Zenon, <2>2, OneParts
    <3>. QED  BY Zenon, <3>1 DEF HasOne
  <2>4. Len(line) = 3
    BY Zenon, <2>1 DEF ReadAs
  <2>. QED  BY Zenon, <2>3, <2>4 DEF Last
<1>. QED  BY Zenon, <1>1, <1>2, OtherLine

LEMMA PacketDecided ==
    ASSUME RulesInv, Ready, NEW p \in Packets, p.version = 4, NEW ds
    PROVE  DecidedBy(MatchPacket(p, ds), Hits(p, In(ds)))
<1>. DEFINE hit == {i \in 1 .. Len(engine.rules) : Matches(engine.rules[i], p, ds)}
            first == SelectInSeq(engine.rules, LAMBDA r : Matches(r, p, ds))
<1>1. /\ Len(engine.rules) = Len(file.rules) /\ Len(file.rules) \in Nat
      /\ DOMAIN file.rules = 1 .. Len(file.rules)
      /\ DOMAIN engine.rules = 1 .. Len(file.rules)
  BY Zenon, RulesLength
<1>2. ASSUME NEW i \in DOMAIN file.rules
      PROVE  /\ engine.rules[i] \in ParseCompact(file.rules[i])
             /\ Matches(engine.rules[i], p, ds) <=> Says(file.rules[i], p, In(ds))
  <2>1. /\ engine.rules[i] \in ParseCompact(file.rules[i])
        /\ \A f \in DOMAIN engine.rules[i].when : ValidCondition(f, engine.rules[i].when[f])
    BY Zenon DEF RulesInv, OfLines, Validate
  <2>. QED  BY Zenon, <2>1, LineMatches
<1>3. hit = Hits(p, In(ds))
  BY Zenon, <1>1, <1>2 DEF Hits
<1>4. first = IF hit # {} THEN Min(hit) ELSE 0
  BY Zenon DEF SelectInSeq
<1>5. hit \in SUBSET Nat
  OBVIOUS
<1>6. MatchPacket(p, ds) = IF first = 0 THEN "Direct" ELSE engine.rules[first].action
  BY Zenon DEF MatchPacket
<1>. HIDE DEF hit, first
<1>7. CASE hit = {}
  BY Zenon, <1>3, <1>4, <1>6, <1>7 DEF DecidedBy
<1>8. CASE hit # {}
  <2>1. first \in hit /\ \A j \in hit : first <= j
    BY Zenon, <1>4, <1>5, <1>8, MinIs
  <2>2. first # 0 /\ first \in DOMAIN file.rules
    BY <1>1, <2>1 DEF hit
  <2>3. MatchPacket(p, ds) = engine.rules[first].action
    BY Zenon, <1>6, <2>2
  <2>4. engine.rules[first].action \in ParseAction(Last(file.rules[first]))
    BY Zenon, <1>2, <2>2, RuleAction
  <2>. QED  BY Zenon, <1>3, <2>1, <2>3, <2>4 DEF DecidedBy
<1>. QED  BY Zenon, <1>7, <1>8

LEMMA RouteDecided ==
    ASSUME RulesInv, NEW p \in Packets, p.version = 4, Route(p)
    PROVE  DecidedBy(routed'.to, Hits(p, In(domains')))
<1>. DEFINE ds == Names(Retained(p.dst_ip))
<1>1. Ready /\ domains' = ds /\ routed' = [to |-> MatchPacket(p, ds), packet |-> p]
  BY Zenon DEF Route, HasContext
<1>. HIDE DEF ds
<1>2. DecidedBy(MatchPacket(p, ds), Hits(p, In(ds)))
  BY Zenon, <1>1, PacketDecided
<1>3. routed'.to = MatchPacket(p, ds)
  BY Zenon, <1>1
<1>. QED  BY Zenon, <1>1, <1>2, <1>3

\* The names that hold for an address when a packet to it is read.
Now(ip) == {k.domain : k \in {x \in Known : x.ip = ip}}

\* They are those the lookup for the packet returns.
LEMMA LookedUp ==
    ASSUME CacheInv, NEW p \in Packets, p.version = 4, Route(p)
    PROVE  In(domains') = Now(p.dst_ip)
<1>1. p.dst_ip \in Ip
  BY Zenon, RouterAssumption
<1>2. domains' = Names(Retained(p.dst_ip))
  BY Zenon DEF Route, HasContext
<1>3. ToSet(Names(Retained(p.dst_ip))) = {k.domain : k \in {x \in Held(entries, clock) : x.ip = p.dst_ip}}
  BY Zenon, <1>1, HeldRetained DEF CacheInv
<1>4. Known = Held(entries, clock)
  BY Zenon, KnownIs
<1>5. In(domains') = ToSet(Names(Retained(p.dst_ip)))
  BY Zenon, <1>2 DEF In, ToSet
<1>. QED  BY Zenon, <1>3, <1>4, <1>5 DEF Now

\* An IPv4 packet goes where the first line of the file that speaks of it sends
\* it, by the names that the responses made known and that have not expired, and
\* to the network directly if no line does: whatever the file, the packet and
\* the responses were.
THEOREM ViewRoutes == Spec => RoutedByView
<1>1. ASSUME RulesInv, CacheInv, NEW p \in Packets, p.version = 4, Route(p)
      PROVE  DecidedBy(routed'.to, Hits(p, Now(p.dst_ip)))
  BY Zenon, <1>1, RouteDecided, LookedUp
<1>2. RulesInv /\ CacheInv /\ [Next]_vars =>
        [\A p \in Packets : p.version = 4 /\ Route(p) =>
            LET now == {k.domain : k \in {x \in Known : x.ip = p.dst_ip}}
                hit == {i \in DOMAIN file.rules : Says(file.rules[i], p, now)}
            IN  \/ hit = {} /\ routed'.to = "Direct"
                \/ \E i \in hit :
                      /\ \A j \in hit : i <= j
                      /\ routed'.to \in ParseAction(Last(file.rules[i]))]_vars
  BY Zenon, <1>1 DEF DecidedBy, Hits, Now
<1>. QED  BY <1>2, RulesOfTheFile, CacheHolds, PTL DEF Spec, RoutedByView

-----------------------------------------------------------------------------
(***************************************************************************)
(* The types.                                                              *)
(***************************************************************************)

\* What TypeOK says beyond RulesInv and CacheInv.
RouteInv ==
    /\ engine.state \in {"none", "refused", "ready"}
    /\ routed = NoRoute \/ (routed.to \in Action /\ routed.packet \in Packets)

LEMMA DecidedAction ==
    ASSUME NEW to, NEW hit, DecidedBy(to, hit)
    PROVE  to \in Action
<1>1. "Direct" \in Action
  BY Zenon DEF Action
<1>. QED  BY Zenon, <1>1, ParsedAction DEF DecidedBy

LEMMA RouteNext ==
    ASSUME RulesInv, RouteInv, [Next]_vars
    PROVE  RouteInv'
<1>1. CASE Start
  <2>1. engine' = Refused \/ \E rs, db : engine' = Engine(rs, db)
    BY Zenon, <1>1 DEF Start
  <2>2. engine'.state \in {"none", "refused", "ready"}
    BY <2>1 DEF Refused, Engine
  <2>3. routed' = routed
    BY Zenon, <1>1 DEF Start
  <2>. QED  BY Zenon, <2>2, <2>3 DEF RouteInv
<1>2. CASE Reconnect
  <2>1. \E rs, db : engine' = Engine(rs, db)
    BY Zenon, <1>2 DEF Reconnect
  <2>2. engine'.state \in {"none", "refused", "ready"}
    BY <2>1 DEF Engine
  <2>3. routed' = NoRoute
    BY Zenon, <1>2 DEF Reconnect
  <2>. QED  BY Zenon, <2>2, <2>3 DEF RouteInv, NoRoute
<1>3. CASE UNCHANGED <<engine, routed>>
  BY Zenon, <1>3 DEF RouteInv
<1>4. ASSUME NEW p \in Packets, Route(p) PROVE RouteInv'
  <2>1. engine' = engine /\ routed'.packet = p
    BY <1>4 DEF Route
  <2>2. CASE p.version = 4
    <3>1. routed'.to \in Action
      BY Zenon, <1>4, <2>2, RouteDecided, DecidedAction
    <3>. QED  BY Zenon, <2>1, <3>1 DEF RouteInv
  <2>3. CASE p.version # 4
    <3>1. routed' = [to |-> "Proxy", packet |-> p]
      BY Zenon, <1>4, <2>3 DEF Route, HasContext
    <3>2. routed'.to \in Action
      BY Zenon, <3>1 DEF Action
    <3>. QED  BY Zenon, <2>1, <3>2 DEF RouteInv
  <2>. QED  BY Zenon, <2>2, <2>3
<1>5. CASE Tick \/ \E as \in Responses : Observe(as)
  BY Zenon, <1>3, <1>5 DEF Tick, Observe
<1>6. CASE UNCHANGED vars
  BY Zenon, <1>3, <1>6 DEF vars
<1>. QED  BY Zenon, <1>1, <1>2, <1>4, <1>5, <1>6 DEF Next

LEMMA InvTypes == RulesInv /\ CacheInv /\ RouteInv => TypeOK
<1>. SUFFICES ASSUME RulesInv, CacheInv, RouteInv PROVE TypeOK
  BY Zenon
<1>1. ASSUME NEW ip \in Ip
      PROVE  /\ \A i \in DOMAIN entries[ip] :
                    entries[ip][i].domain \in Domain /\ entries[ip][i].expires \in Nat
             /\ IsInjective(Names(entries[ip]))
  <2>1. entries[ip] \in Seq(Entry) /\ Once(entries[ip])
    BY Zenon, <1>1 DEF CacheInv, Caches
  <2>2. \A i \in DOMAIN entries[ip] : entries[ip][i] \in Entry
    BY Zenon, <2>1, LenProperties
  <2>3. \A e \in Entry : e.domain \in Domain /\ e.expires \in Nat
    BY Zenon DEF Entry
  <2>4. IsInjective(Names(entries[ip]))
    BY Zenon, <2>1 DEF Once, IsInjective, Names
  <2>. QED  BY Zenon, <2>2, <2>3, <2>4
<1>. QED  BY Zenon, <1>1 DEF TypeOK, RulesInv, CacheInv, RouteInv

\* Whatever the files, packets and responses: a packet is sent to one of the
\* three destinations, and DomainCache::insert never lists a name twice.
THEOREM RouterTypes == Spec => []TypeOK
<1>1. Init => RouteInv
  BY DEF Init, RouteInv, NotStarted
<1>2. RulesInv /\ RouteInv /\ [Next]_vars => RouteInv'
  BY Zenon, RouteNext
<1>3. RulesInv /\ CacheInv /\ RouteInv => TypeOK
  BY Zenon, InvTypes
<1>. QED  BY <1>1, <1>2, <1>3, RulesOfTheFile, CacheHolds, PTL DEF Spec
=============================================================================
