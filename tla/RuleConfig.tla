----------------------------- MODULE RuleConfig -----------------------------
(***************************************************************************)
(* The rules of the configuration file: parsing a line, validating the     *)
(* rules, writing a rule back as a line.                                   *)
(*                                                                         *)
(* A line is the sequence of its comma separated, trimmed words.  A        *)
(* function that may fail returns the set of its results: {} is Err and    *)
(* {x} is Ok(x).                                                           *)
(***************************************************************************)
EXTENDS Integers, Sequences, SequencesExt

CONSTANTS
    Uppers, Lowers,     \* the words that to_ascii_uppercase (lowercase) changes
    Normals,            \* the words that lose capitals or final dots as a domain
    Dashes,             \* the words with a dash, split at it
    Number,             \* the words that are decimal u16
    Network,            \* the words Ipv4Network parses: the addresses of each
    Odd                 \* the words with white space or a slash

Action == {"Direct", "Proxy", "Reject"}

Apply(f, w) == IF w \in DOMAIN f THEN f[w] ELSE w

Upper(w) == Apply(Uppers, w)

Lower(w) == Apply(Lowers, w)

\* trim_end_matches('.') and to_ascii_lowercase; "" is what dots leave.
Normalize(w) == Apply(Normals, w)

Split(w) == IF w \in DOMAIN Dashes THEN Dashes[w] ELSE <<w>>

ActionOf ==
    [direct |-> "Direct", proxy |-> "Proxy", reject |-> "Reject", drop |-> "Reject"]

ParseAction(w) ==
    IF Lower(w) \in DOMAIN ActionOf THEN {ActionOf[Lower(w)]} ELSE {}

\* The order in which a rule's conditions are displayed, and their words.
Fields ==
    <<"src_ip_cidr", "dst_ip_cidr", "src_port", "dst_port", "proto",
      "domain", "domain_suffix", "domain_keyword", "geoip">>

FieldWords ==
    <<"SRC-IP-CIDR", "DST-IP-CIDR", "SRC-PORT", "DST-PORT", "PROTO",
      "DOMAIN", "DOMAIN-SUFFIX", "DOMAIN-KEYWORD", "GEOIP">>

CidrField == {"src_ip_cidr", "dst_ip_cidr"}

PortField == {"src_port", "dst_port"}

DomainField == {"domain", "domain_suffix", "domain_keyword"}

\* What the conversions of the words do, as far as the rules rely on it: a word
\* in capitals (or normal) stays as it is, the keywords are in capitals, and the
\* names under which actions are displayed are those of the parser but for case.
ASSUME WordsAssumption ==
    /\ \A w \in DOMAIN Uppers : Upper(Uppers[w]) = Uppers[w]
    /\ \A w \in DOMAIN Normals : Normalize(Normals[w]) = Normals[w]
    /\ \A i \in DOMAIN FieldWords : Upper(FieldWords[i]) = FieldWords[i]
    /\ Upper("MATCH") = "MATCH"
    /\ \A a \in Action : Lower(a) \in DOMAIN ActionOf /\ ActionOf[Lower(a)] = a
    /\ Number \in [DOMAIN Number -> Nat]
    /\ \A w \in DOMAIN Dashes : Dashes[w] \in Seq(STRING) /\ Len(Dashes[w]) > 1

\* parse_field_rule_parts
ParseFieldRuleParts(line) ==
    IF Len(line) # 3 \/ line[2] = "" THEN {}
    ELSE {[value |-> line[2], action |-> a] : a \in ParseAction(line[3])}

\* normalize_domain_rule_value and normalize_geoip_rule_value
RuleValue(f, w) ==
    CASE f \in DomainField -> {Normalize(w)} \ ({""} \cup Odd)
      [] f = "geoip" -> {Upper(w)} \ ({""} \cup Odd)
      [] OTHER -> {w}

\* A rule has the conditions of "when" and match_all when it was a MATCH line.
Rule(when, all, action) == [when |-> when, match_all |-> all, action |-> action]

NoCondition == [f \in {} |-> ""]

\* Rule::parse_compact on a MATCH line ...
ParseMatch(line) ==
    {Rule(NoCondition, TRUE, a) : a \in IF Len(line) # 2 THEN {} ELSE ParseAction(line[2])}

\* ... and on a line that sets the condition f.
ParseField(line, f) ==
    UNION {{Rule([x \in {f} |-> v], FALSE, p.action) : v \in RuleValue(f, p.value)} :
                p \in ParseFieldRuleParts(line)}

\* The condition a keyword stands for, by its position, or 0.
FieldAt(word) == SelectInSeq(FieldWords, LAMBDA x : x = word)

\* Rule::parse_compact: one condition, or none for MATCH.
ParseCompact(line) ==
    LET word == Upper(line[1])
    IN  CASE word = "MATCH" -> ParseMatch(line)
          [] FieldAt(word) # 0 -> ParseField(line, Fields[FieldAt(word)])
          [] OTHER -> {}

\* The rules list: the first line that does not parse refuses the file.
ParseRules(lines) ==
    IF \E i \in DOMAIN lines : ParseCompact(lines[i]) = {} THEN {}
    ELSE {[i \in DOMAIN lines |-> CHOOSE r \in ParseCompact(lines[i]) : TRUE]}

\* parse_port_range
ParsePortRange(w) ==
    LET ps == Split(w)
        lo == Number[ps[1]]
        hi == Number[ps[Len(ps)]]
    IN  IF \/ Len(ps) > 2
           \/ ~ToSet(ps) \subseteq DOMAIN Number
           \/ lo > hi
        THEN {}
        ELSE {lo .. hi}

\* Protocol::from_str
ProtocolFromStr(w) == {Lower(w)} \cap {"tcp", "udp", "icmp"}

HasConditions(rule) == rule.match_all \/ DOMAIN rule.when # {}

\* A variant that forgets to check source ports.
ValidCondition_NoSrcPort(f, w) ==
    CASE f \in CidrField -> w \in DOMAIN Network
      [] f = "dst_port" -> ParsePortRange(w) # {}
      [] f = "proto" -> ProtocolFromStr(w) # {}
      [] OTHER -> w # "" /\ w \notin Odd

ValidCondition(f, w) ==
    CASE f \in CidrField -> w \in DOMAIN Network
      [] f \in PortField -> ParsePortRange(w) # {}
      [] f = "proto" -> ProtocolFromStr(w) # {}
      [] OTHER -> w # "" /\ w \notin Odd

\* RulesConfig::validate
Validate(rules) ==
    \A i \in DOMAIN rules :
        /\ HasConditions(rules[i])
        /\ \A f \in DOMAIN rules[i].when : ValidCondition(f, rules[i].when[f])

\* The first condition a rule sets, by its position, or 0.
FirstField(rule) == SelectInSeq(Fields, LAMBDA f : f \in DOMAIN rule.when)

\* A variant that writes every domain rule as an exact one.
Display_AllExact(rule) ==
    LET at == FirstField(rule)
    IN  IF rule.match_all \/ at = 0 THEN <<"MATCH", rule.action>>
        ELSE <<IF Fields[at] \in DomainField THEN "DOMAIN" ELSE FieldWords[at],
               rule.when[Fields[at]], rule.action>>

\* Display for Rule: the first condition that is set.
Display(rule) ==
    LET at == FirstField(rule)
    IN  IF rule.match_all \/ at = 0 THEN <<"MATCH", rule.action>>
        ELSE <<FieldWords[at], rule.when[Fields[at]], rule.action>>
=============================================================================
