---------------------------- MODULE TemplatesProofs ----------------------------
(***************************************************************************)
(* Theorems about PostalAddress, for any address, and MessageTemplates,    *)
(* for any texts and values.                                               *)
(***************************************************************************)
EXTENDS MessageTemplates, InsensitiveProofs

-----------------------------------------------------------------------------
(* Templates of emails and letters.  What is chosen of items with          *)
(* different keys has different keys, and what is known stays.             *)
LEMMA WhereOnce ==
  ASSUME NEW S, NEW items \in Seq(S), Once(items), NEW chosen
  PROVE  Once(Where(items, chosen))
<1>1. PICK n \in Nat : n = Len(items) /\ \A k \in 1..n : items[k] \in S
  BY LenProperties
<1>2. PICK f \in [0..n -> Seq(S)] :
        /\ f[0] = <<>> /\ Where(items, chosen) = f[n]
        /\ \A k \in 1..n : f[k] = Taken(f[k - 1], items[k], chosen)
  <2>1. \E f \in [0..Len(items) -> Seq(S)] :
           /\ f[0] = <<>>
           /\ \A k \in 1..Len(items) : f[k] = Taken(f[k - 1], items[k], chosen)
           /\ Where(items, chosen) = f[Len(items)]
    BY WhereSteps, Zenon
  <2> QED BY <1>1, <2>1
<1> DEFINE P(k) == KeysOf(f[k]) \subseteq FirstKeys(items, k) /\ Once(f[k])
           T == {k \in 0..n : P(k)}
<1>3. P(0)
  <2>1. f[0] = <<>> /\ Len(<<>>) = 0
    BY <1>2
  <2>2. KeysOf(<<>>) = {}
    BY NoKeys
  <2> QED BY <2>1, <2>2 DEF Once
<1>4. ASSUME NEW k \in 0..n, P(k), k < n PROVE P(k + 1)
  <2>1. k + 1 \in 1..n /\ (k + 1) - 1 = k /\ k \in Nat
    BY <1>4
  <2>2. PICK some \in Seq(S), new \in S : some = f[k] /\ new = items[k + 1]
    BY <1>1, <1>2, <2>1
  <2>3. f[k + 1] = Taken(some, new, chosen)
    BY <1>2, <2>1, <2>2
  <2>4. FirstKeys(items, k + 1) = FirstKeys(items, k) \cup {new.key}
    BY <2>1, <2>2, OneMoreKey
  <2>5. CASE new \notin chosen
    BY <1>4, <2>2, <2>3, <2>4, <2>5 DEF Taken
  <2>6. CASE new \in chosen
    <3>1. f[k + 1] = Append(some, new)
      BY <2>3, <2>6 DEF Taken
    <3>2. new.key \notin FirstKeys(items, k)
      <4>1. ASSUME NEW m \in 1..k PROVE items[m].key # new.key
        <5>1. m \in 1..n /\ m # k + 1
          BY <2>1
        <5> QED BY <1>1, <2>1, <2>2, <5>1 DEF Once
      <4> QED BY <4>1 DEF FirstKeys
    <3>3. KeysOf(f[k + 1]) = KeysOf(some) \cup {new.key}
      BY <3>1, AppendedKeys
    <3>4. Once(f[k + 1])
      BY <1>4, <2>2, <3>1, <3>2, AppendedKeys
    <3> QED BY <1>4, <2>2, <2>4, <3>3, <3>4
  <2> QED BY <2>5, <2>6
<1>5. 0 \in T /\ \A k \in 0..n : k \in T /\ k < n => k + 1 \in T
  <2> HIDE DEF P
  <2>1. 0 \in 0..n /\ \A k \in 0..n : k < n => k + 1 \in 0..n
    OBVIOUS
  <2> QED BY <1>3, <1>4, <2>1, Zenon
<1>6. \A k \in 0..n : k \in T
  <2> HIDE DEF T
  <2> QED BY <1>5, StepByStep
<1>7. n \in 0..n
  OBVIOUS
<1>8. P(n)
  <2> HIDE DEF P
  <2> QED BY <1>6, <1>7
<1> QED BY <1>2, <1>8

LEMMA KnownStay ==
  ASSUME NEW S, NEW known \in Seq(S), NEW items \in Seq(S)
  PROVE  ToSet(known) \subseteq ToSet(AddPairs(known, items))
<1>1. PICK n \in Nat : n = Len(items) /\ \A k \in 1..n : items[k] \in S
  BY LenProperties
<1>2. PICK f \in [0..n -> Seq(S)] :
        /\ f[0] = known /\ AddPairs(known, items) = f[n]
        /\ \A k \in 1..n : f[k] = Added(f[k - 1], items[k])
  <2>1. \E f \in [0..Len(items) -> Seq(S)] :
           /\ f[0] = known
           /\ \A k \in 1..Len(items) : f[k] = Added(f[k - 1], items[k])
           /\ AddPairs(known, items) = f[Len(items)]
    BY AddPairsSteps
  <2> QED BY <1>1, <2>1
<1> DEFINE P(k) == \A item : Among(item, known) => Among(item, f[k])
           T == {k \in 0..n : P(k)}
<1>3. P(0)
  BY <1>2
<1>4. ASSUME NEW k \in 0..n, P(k), k < n PROVE P(k + 1)
  <2>1. k + 1 \in 1..n /\ (k + 1) - 1 = k /\ k \in Nat
    BY <1>4
  <2>2. PICK some \in Seq(S), new \in S : some = f[k] /\ new = items[k + 1]
    BY <1>1, <1>2, <2>1
  <2>3. f[k + 1] = Added(some, new)
    BY <1>2, <2>1, <2>2
  <2>4. PICK m \in Nat : m = Len(some)
    BY LenProperties
  <2>5. /\ Len(Append(some, new)) = m + 1
        /\ \A l \in 1..m : Append(some, new)[l] = some[l]
    BY <2>4, Appended
  <2>6. \A item : Among(item, some) => Among(item, Append(some, new))
    BY <2>4, <2>5 DEF Among
  <2> QED BY <1>4, <2>2, <2>3, <2>6 DEF Added
<1>5. 0 \in T /\ \A k \in 0..n : k \in T /\ k < n => k + 1 \in T
  <2> HIDE DEF P
  <2>1. 0 \in 0..n /\ \A k \in 0..n : k < n => k + 1 \in 0..n
    OBVIOUS
  <2> QED BY <1>3, <1>4, <2>1, Zenon
<1>6. \A k \in 0..n : k \in T
  <2> HIDE DEF T
  <2> QED BY <1>5, StepByStep
<1>7. n \in 0..n
  OBVIOUS
<1>8. P(n) /\ f[n] \in Seq(S)
  <2> HIDE DEF P
  <2> QED BY <1>2, <1>6, <1>7
<1> QED BY <1>2, <1>8, AmongThem

(* The placeholders of a text.                                             *)
LEMMA PlaceholdersOf ==
  ASSUME NEW S, NEW body \in Seq(S)
  PROVE  /\ get_placeholders(body) \in Seq({piece.name : piece \in S})
         /\ Once(get_placeholders(body))
         /\ KeysOf(get_placeholders(body))
              = {piece.name.key : piece \in {other \in ToSet(body) : ~IsText(other)}}
<1>1. PICK named : named = Where(body, {piece \in ToSet(body) : ~IsText(piece)})
  OBVIOUS
<1>2. named \in Seq(S) /\ ToSet(named) = {piece \in ToSet(body) : ~IsText(piece)}
  BY <1>1, WhereItems
<1>3. PICK n \in Nat : n = Len(named) /\ DOMAIN named = 1..n /\ \A k \in 1..n : named[k] \in S
  BY <1>2, LenProperties
<1>4. PICK names : names = [k \in 1..n |-> named[k].name]
  OBVIOUS
<1>5. names \in Seq({piece.name : piece \in S}) /\ DOMAIN names = 1..n
  BY <1>3, <1>4
<1>6. get_placeholders(body) = AddPairs(<<>>, names)
  BY <1>1, <1>3, <1>4 DEF get_placeholders, FromIterable
<1>7. PICK none \in Seq({piece.name : piece \in S}) : none = <<>> /\ KeysOf(none) = {} /\ Once(none)
  <2>1. <<>> \in Seq({piece.name : piece \in S}) /\ Len(<<>>) = 0
    OBVIOUS
  <2>2. Once(<<>>)
    BY <2>1 DEF Once
  <2>3. KeysOf(<<>>) = {}
    BY NoKeys
  <2> QED BY <2>1, <2>2, <2>3
<1>8. /\ AddPairs(none, names) \in Seq({piece.name : piece \in S})
      /\ KeysOf(AddPairs(none, names)) = KeysOf(none) \cup KeysOf(names)
      /\ Once(AddPairs(none, names))
  <2>1. PICK Names : Names = {piece.name : piece \in S}
    OBVIOUS
  <2>2. none \in Seq(Names) /\ names \in Seq(Names)
    BY <1>5, <1>7, <2>1
  <2>3. /\ AddPairs(none, names) \in Seq(Names)
        /\ KeysOf(AddPairs(none, names)) = KeysOf(none) \cup KeysOf(names)
        /\ Once(none) => Once(AddPairs(none, names))
    BY <2>2, AddPairsProperties
  <2> QED BY <1>7, <2>1, <2>3
<1>9. KeysOf(names) = {piece.name.key : piece \in ToSet(named)}
  <2>1. KeysOf(names) = {names[k].key : k \in 1..n}
    BY <1>5 DEF KeysOf, ToSet
  <2>2. ToSet(named) = {named[k] : k \in 1..n}
    BY <1>3 DEF ToSet
  <2> QED BY <1>4, <2>1, <2>2
<1> QED BY <1>2, <1>6, <1>7, <1>8, <1>9

(* All parts of texts, and all names.                                      *)
TextsOf(t) ==
  {t.subject, t.content, t.letter_welsh_subject, t.letter_welsh_content, t.contact_block}
Parts == UNION {UNION {ToSet(body) : body \in TextsOf(t)} : t \in Templates}
AllNames ==
  {piece.name : piece \in Parts}
    \cup {entry.item : entry \in UNION {ToSet(entries) : entries \in GivenValues}}

LEMMA TextsAreParts ==
  ASSUME NEW t \in Templates, NEW body \in TextsOf(t)
  PROVE  body \in Seq(Parts)
<1>1. body \in Seq(ToSet(body))
  BY TextsAssumption DEF TextsOf
<1>2. ToSet(body) \subseteq Parts
  BY DEF Parts
<1> QED BY <1>1, <1>2

IsNames(names) == names \in Seq(AllNames) /\ Once(names)

LEMMA NamesOfParts ==
  ASSUME NEW body \in Seq(Parts)
  PROVE  IsNames(get_placeholders(body))
<1>1. {piece.name : piece \in Parts} \subseteq AllNames
  BY DEF AllNames
<1>2. get_placeholders(body) \in Seq({piece.name : piece \in Parts}) /\ Once(get_placeholders(body))
  BY PlaceholdersOf
<1> QED BY <1>1, <1>2 DEF IsNames

LEMMA OrOfNames ==
  ASSUME NEW known, IsNames(known), NEW names, names \in Seq(AllNames)
  PROVE  /\ IsNames(Or(known, names)) /\ KeysOf(Or(known, names)) = KeysOf(known) \cup KeysOf(names)
         /\ ToSet(known) \subseteq ToSet(Or(known, names))
  BY AddPairsProperties, KnownStay DEF IsNames, Or

WithText(known, body) == Or(known, get_placeholders(body))

LEMMA WithTextIsNames ==
  ASSUME NEW known \in Seq(AllNames), NEW body \in Seq(Parts)
  PROVE  WithText(known, body) \in Seq(AllNames)
<1>1. get_placeholders(body) \in Seq(AllNames)
  BY NamesOfParts DEF IsNames
<1> QED BY <1>1, AddPairsProperties DEF WithText, Or

(* The placeholders of texts, text by text.                                *)
LEMMA UnionSteps ==
  ASSUME NEW texts \in Seq(Seq(Parts))
  PROVE  \E f \in [0..Len(texts) -> Seq(AllNames)] :
           /\ f[0] = <<>>
           /\ \A k \in 1..Len(texts) : f[k] = WithText(f[k - 1], texts[k])
           /\ Union(texts) = f[Len(texts)]
<1>0. PICK n \in Nat : n = Len(texts)
  BY LenProperties
<1>1. PICK V : V = Seq(AllNames)
  OBVIOUS
<1>2. DOMAIN texts = 1..n /\ <<>> \in V /\ \A k \in 1..n : texts[k] \in Seq(Parts)
  BY <1>0, <1>1
<1>3. PICK h : h = [v \in V |-> [k \in 1..n |-> WithText(v, texts[k])]]
  OBVIOUS
<1>4. h \in Changes(n, V)
  <2>1. \A v \in V, k \in 1..n : WithText(v, texts[k]) \in V
    BY <1>0, <1>1, <1>2, WithTextIsNames
  <2> QED BY <1>3, <2>1 DEF Changes
<1> DEFINE IsFold(g) ==
      g = [s \in SUBSET DOMAIN texts |->
             IF s = {} THEN <<>> ELSE WithText(g[Except(s)], texts[Max(s)])]
<1>5. \E g : IsFold(g)
  <2>1. PICK g \in [SUBSET (1..n) -> V] : IsFoldOf(g, n, <<>>, h)
    BY <1>2, <1>4, FoldExists, Zenon
  <2>2. ASSUME NEW s \in SUBSET (1..n), s # {}
        PROVE  h[g[Except(s)]][Max(s)] = WithText(g[Except(s)], texts[Max(s)])
    <3>1. Max(s) \in 1..n /\ Except(s) \in SUBSET (1..n)
      BY <2>2, LastPlace DEF Except
    <3> QED BY <1>3, <2>1, <3>1
  <2>3. IsFold(g)
    BY <1>2, <2>1, <2>2 DEF IsFoldOf
  <2> QED BY <2>3
<1>6. PICK iter : iter = (CHOOSE g : IsFold(g))
  OBVIOUS
<1>7. IsFold(iter)
  <2> HIDE DEF IsFold
  <2> QED BY <1>5, <1>6
<1>8. Union(texts) = iter[1..n]
  BY <1>2, <1>6, Zenon DEF Union, WithText, FoldLeft, MapThenFoldSet, Except
<1>9. iter[{}] = <<>>
  BY <1>7
<1>10. FollowsFrom(iter, n, V, h)
  <2>1. ASSUME NEW s \in SUBSET (1..n), s # {}, iter[Except(s)] \in V
        PROVE  iter[s] = h[iter[Except(s)]][Max(s)]
    <3>1. Max(s) \in 1..n
      BY <2>1, LastPlace
    <3> QED BY <1>2, <1>3, <1>7, <2>1, <3>1
  <2> QED BY <2>1 DEF FollowsFrom
<1>11. PICK f \in [0..n -> V] : Steps(f, n, <<>>, h) /\ iter[1..n] = f[n]
  <2> HIDE DEF IsFold
  <2> QED BY <1>2, <1>4, <1>9, <1>10, FoldSteps
<1>12. ASSUME NEW k \in 1..n PROVE f[k] = WithText(f[k - 1], texts[k])
  <2>1. f[k - 1] \in V
    <3>1. k - 1 \in 0..n
      BY <1>0
    <3> QED BY <1>11, <3>1
  <2> QED BY <1>3, <1>11, <2>1 DEF Steps
<1> QED BY <1>0, <1>1, <1>8, <1>11, <1>12 DEF Steps

(* A letter's placeholders are those of what both languages share, and     *)
(* then those of its own texts.                                            *)
Shared(t) ==
  WithText(WithText(WithText(<<>>, t.contact_block), t.letter_welsh_subject), t.letter_welsh_content)

LEMMA UnionOfFive ==
  ASSUME NEW a \in Seq(Parts), NEW b \in Seq(Parts), NEW c \in Seq(Parts),
         NEW d \in Seq(Parts), NEW e \in Seq(Parts)
  PROVE  Union(<<a, b, c, d, e>>)
           = WithText(WithText(WithText(WithText(WithText(<<>>, a), b), c), d), e)
<1>1. PICK texts \in Seq(Seq(Parts)) : texts = <<a, b, c, d, e>>
  <2>1. <<a, b, c, d, e>> \in Seq(Seq(Parts))
    OBVIOUS
  <2> QED BY <2>1
<1>2. /\ Len(texts) = 5 /\ texts[1] = a /\ texts[2] = b /\ texts[3] = c
      /\ texts[4] = d /\ texts[5] = e
  BY <1>1
<1>3. PICK f : /\ f[0] = <<>> /\ Union(texts) = f[Len(texts)]
               /\ \A k \in 1..Len(texts) : f[k] = WithText(f[k - 1], texts[k])
  BY UnionSteps
<1>4. \A k \in 1..5 : f[k] = WithText(f[k - 1], texts[k])
  BY <1>2, <1>3
<1>5. /\ f[1] = WithText(f[0], texts[1]) /\ f[2] = WithText(f[1], texts[2])
      /\ f[3] = WithText(f[2], texts[3]) /\ f[4] = WithText(f[3], texts[4])
      /\ f[5] = WithText(f[4], texts[5])
  BY <1>4
<1>6. Union(texts) = f[5]
  BY <1>2, <1>3
<1> QED BY <1>1, <1>2, <1>3, <1>5, <1>6

LEMMA UnionOfTwo ==
  ASSUME NEW a \in Seq(Parts), NEW b \in Seq(Parts)
  PROVE  Union(<<a, b>>) = WithText(WithText(<<>>, a), b)
<1>1. PICK texts \in Seq(Seq(Parts)) : texts = <<a, b>>
  <2>1. <<a, b>> \in Seq(Seq(Parts))
    OBVIOUS
  <2> QED BY <2>1
<1>2. Len(texts) = 2 /\ texts[1] = a /\ texts[2] = b
  BY <1>1
<1>3. PICK f : /\ f[0] = <<>> /\ Union(texts) = f[Len(texts)]
               /\ \A k \in 1..Len(texts) : f[k] = WithText(f[k - 1], texts[k])
  BY UnionSteps
<1>4. \A k \in 1..2 : f[k] = WithText(f[k - 1], texts[k])
  BY <1>2, <1>3
<1>5. f[1] = WithText(f[0], texts[1]) /\ f[2] = WithText(f[1], texts[2])
  BY <1>4
<1>6. Union(texts) = f[2]
  BY <1>2, <1>3
<1> QED BY <1>1, <1>2, <1>3, <1>5, <1>6

LEMMA WithTextNames ==
  ASSUME NEW known, IsNames(known), NEW body \in Seq(Parts)
  PROVE  /\ IsNames(WithText(known, body))
         /\ KeysOf(WithText(known, body)) = KeysOf(known) \cup KeysOf(get_placeholders(body))
         /\ ToSet(known) \subseteq ToSet(WithText(known, body))
<1>1. get_placeholders(body) \in Seq(AllNames)
  BY NamesOfParts DEF IsNames
<1> QED BY <1>1, OrOfNames DEF WithText

LEMMA NoNames == IsNames(<<>>) /\ KeysOf(<<>>) = {}
<1>1. <<>> \in Seq(AllNames) /\ Len(<<>>) = 0
  OBVIOUS
<1>2. Once(<<>>)
  BY <1>1 DEF Once
<1> QED BY <1>1, <1>2, NoKeys DEF IsNames

LEMMA SharedNames ==
  ASSUME NEW t \in Templates
  PROVE  /\ IsNames(Shared(t))
         /\ KeysOf(get_placeholders(t.letter_welsh_subject)) \subseteq KeysOf(Shared(t))
         /\ KeysOf(get_placeholders(t.letter_welsh_content)) \subseteq KeysOf(Shared(t))
<1>1. /\ t.contact_block \in Seq(Parts) /\ t.letter_welsh_subject \in Seq(Parts)
      /\ t.letter_welsh_content \in Seq(Parts)
  BY TextsAreParts DEF TextsOf
<1>2. PICK first : first = WithText(<<>>, t.contact_block)
  OBVIOUS
<1>3. IsNames(first)
  BY <1>1, <1>2, NoNames, WithTextNames
<1>4. PICK second : second = WithText(first, t.letter_welsh_subject)
  OBVIOUS
<1>5. /\ IsNames(second)
      /\ KeysOf(second) = KeysOf(first) \cup KeysOf(get_placeholders(t.letter_welsh_subject))
  BY <1>1, <1>3, <1>4, WithTextNames
<1>6. Shared(t) = WithText(second, t.letter_welsh_content)
  BY <1>2, <1>4 DEF Shared
<1>7. /\ IsNames(Shared(t))
      /\ KeysOf(Shared(t)) = KeysOf(second) \cup KeysOf(get_placeholders(t.letter_welsh_content))
  BY <1>1, <1>5, <1>6, WithTextNames
<1> QED BY <1>5, <1>7

LEMMA PlaceholdersAre ==
  ASSUME NEW t \in Templates, NEW subject \in Seq(Parts), NEW body \in Seq(Parts)
  PROVE  /\ IsNames(placeholders(t, subject, body))
         /\ KeysOf(get_placeholders(subject)) \subseteq KeysOf(placeholders(t, subject, body))
         /\ KeysOf(get_placeholders(body)) \subseteq KeysOf(placeholders(t, subject, body))
         /\ t.template_type = "letter" =>
              /\ ToSet(Shared(t)) \subseteq ToSet(placeholders(t, subject, body))
              /\ KeysOf(placeholders(t, subject, body))
                   = KeysOf(Shared(t)) \cup KeysOf(get_placeholders(subject))
                       \cup KeysOf(get_placeholders(body))
<1>1. PICK first : first = IF t.template_type = "letter" THEN Shared(t) ELSE <<>>
  OBVIOUS
<1>2. IsNames(first)
  BY <1>1, SharedNames, NoNames
<1>3. placeholders(t, subject, body) = WithText(WithText(first, subject), body)
  <2>1. CASE t.template_type = "letter"
    <3>1. /\ t.contact_block \in Seq(Parts) /\ t.letter_welsh_subject \in Seq(Parts)
          /\ t.letter_welsh_content \in Seq(Parts)
      BY TextsAreParts DEF TextsOf
    <3>2. PICK a \in Seq(Parts), b \in Seq(Parts), c \in Seq(Parts) :
            a = t.contact_block /\ b = t.letter_welsh_subject /\ c = t.letter_welsh_content
      BY <3>1
    <3>3. Union(<<a, b, c, subject, body>>)
            = WithText(WithText(WithText(WithText(WithText(<<>>, a), b), c), subject), body)
      BY UnionOfFive
    <3>4. Shared(t) = WithText(WithText(WithText(<<>>, a), b), c)
      BY <3>2 DEF Shared
    <3> QED BY <1>1, <2>1, <3>2, <3>3, <3>4 DEF placeholders
  <2>2. CASE t.template_type # "letter"
    BY <1>1, <2>2, UnionOfTwo DEF placeholders
  <2> QED BY <2>1, <2>2
<1>4. PICK second : second = WithText(first, subject)
  OBVIOUS
<1>5. /\ IsNames(second) /\ KeysOf(second) = KeysOf(first) \cup KeysOf(get_placeholders(subject))
      /\ ToSet(first) \subseteq ToSet(second)
  BY <1>2, <1>4, WithTextNames
<1>6. PICK all : all = placeholders(t, subject, body)
  OBVIOUS
<1>7. /\ IsNames(all) /\ KeysOf(all) = KeysOf(second) \cup KeysOf(get_placeholders(body))
      /\ ToSet(second) \subseteq ToSet(all)
  BY <1>3, <1>4, <1>5, <1>6, WithTextNames
<1> QED BY <1>1, <1>5, <1>6, <1>7

LEMMA OneItemPerKey ==
  ASSUME NEW names, IsNames(names), NEW item \in ToSet(names), NEW other \in ToSet(names),
         item.key = other.key
  PROVE  item = other
<1>1. Among(item, names) /\ Among(other, names)
  BY AmongThem DEF IsNames
<1> QED BY <1>1 DEF Among, IsNames, Once

(* The texts are those of the language, the values those given last, in    *)
(* the spelling of the placeholders that there were.                       *)
IsEnglish == _subject = _template.subject /\ content = _template.content
IsWelsh ==
  /\ _template.template_type = "letter"
  /\ _subject = _template.letter_welsh_subject /\ content = _template.letter_welsh_content

TemplatesInv ==
  /\ _template \in Templates /\ (IsEnglish \/ IsWelsh)
  /\ given_values \in GivenValues
  /\ made \in {placeholders_now, placeholders(_template, _template.subject, _template.content)}
  /\ _values = IF given_values = <<>> THEN <<>> ELSE ValuesOf(made, given_values)

LEMMA TemplatesInitially == TemplatesInit => TemplatesInv
  BY DEF TemplatesInit, TemplatesInv, IsEnglish, IsWelsh

LEMMA TemplatesStep == TemplatesInv /\ [SetTemplateValues]_templates_vars => TemplatesInv'
<1> SUFFICES ASSUME TemplatesInv, [SetTemplateValues]_templates_vars PROVE TemplatesInv'
  OBVIOUS
<1>1. CASE SetTemplateValues
  <2>1. PICK entries \in GivenValues : SetTo(placeholders_now, entries)
    BY <1>1 DEF SetTemplateValues
  <2>2. UNCHANGED <<_template, language, _subject, content>>
    BY <1>1 DEF SetTemplateValues
  <2>3. placeholders_now' = placeholders_now
    BY <2>2 DEF placeholders_now
  <2>4. /\ given_values' = entries /\ made' = placeholders_now
        /\ _values' = IF entries = <<>> THEN <<>> ELSE ValuesOf(placeholders_now, entries)
    BY <2>1 DEF SetTo
  <2>5. _template' \in Templates /\ (IsEnglish' \/ IsWelsh')
    BY <2>2 DEF TemplatesInv, IsEnglish, IsWelsh
  <2> QED BY <2>3, <2>4, <2>5 DEF TemplatesInv
<1>2. CASE UNCHANGED templates_vars
  BY <1>2 DEF templates_vars, TemplatesInv, IsEnglish, IsWelsh, placeholders_now
<1> QED BY <1>1, <1>2

(* The invariant of MessageTemplates.                                      *)
THEOREM TemplatesInductive == TemplatesSpec => []TemplatesInv
  BY TemplatesInitially, TemplatesStep, PTL DEF TemplatesSpec

(* The names in the language of a letter are spelt as they were when its   *)
(* values were set, if that was before.                                    *)
LEMMA NowIsMade ==
  ASSUME TemplatesInv
  PROVE  /\ IsNames(placeholders_now) /\ IsNames(made)
         /\ ToSet(placeholders_now) \subseteq ToSet(made)
         /\ _subject \in Seq(Parts) /\ content \in Seq(Parts)
         /\ KeysOf(get_placeholders(_subject)) \subseteq KeysOf(placeholders_now)
         /\ KeysOf(get_placeholders(content)) \subseteq KeysOf(placeholders_now)
<1>1. PICK t \in Templates : t = _template
  BY DEF TemplatesInv
<1>2. \A body \in TextsOf(t) : body \in Seq(Parts)
  BY TextsAreParts
<1>3. _subject \in TextsOf(t) /\ content \in TextsOf(t) /\ t.subject \in TextsOf(t) /\ t.content \in TextsOf(t)
  BY <1>1 DEF TextsOf, TemplatesInv, IsEnglish, IsWelsh
<1>4. _subject \in Seq(Parts) /\ content \in Seq(Parts) /\ t.subject \in Seq(Parts) /\ t.content \in Seq(Parts)
  BY <1>2, <1>3
<1>5. PICK now, first : now = placeholders_now /\ first = placeholders(t, t.subject, t.content)
  OBVIOUS
<1>6. now = placeholders(t, _subject, content)
  BY <1>1, <1>5 DEF placeholders_now
<1>7. /\ IsNames(now) /\ IsNames(first)
      /\ KeysOf(get_placeholders(_subject)) \subseteq KeysOf(now)
      /\ KeysOf(get_placeholders(content)) \subseteq KeysOf(now)
  BY <1>4, <1>5, <1>6, PlaceholdersAre
<1>8. made \in {now, first}
  BY <1>1, <1>5 DEF TemplatesInv
<1>9. ToSet(now) \subseteq ToSet(first)
  <2>1. CASE IsEnglish
    BY <1>1, <1>5, <1>6, <2>1 DEF IsEnglish
  <2>2. CASE IsWelsh
    <3>1. /\ t.template_type = "letter"
          /\ _subject = t.letter_welsh_subject /\ content = t.letter_welsh_content
      BY <1>1, <2>2 DEF IsWelsh
    <3>2. PICK both : both = Shared(t)
      OBVIOUS
    <3>3. /\ IsNames(both)
          /\ KeysOf(get_placeholders(_subject)) \subseteq KeysOf(both)
          /\ KeysOf(get_placeholders(content)) \subseteq KeysOf(both)
      BY <3>1, <3>2, SharedNames
    <3>4. /\ ToSet(both) \subseteq ToSet(now) /\ ToSet(both) \subseteq ToSet(first)
          /\ KeysOf(now) = KeysOf(both) \cup KeysOf(get_placeholders(_subject))
                             \cup KeysOf(get_placeholders(content))
      BY <1>4, <1>5, <1>6, <3>1, <3>2, PlaceholdersAre
    <3>5. KeysOf(now) = KeysOf(both)
      BY <3>3, <3>4
    <3>6. \A item, other \in ToSet(now) : item.key = other.key => item = other
      BY <1>7, OneItemPerKey
    <3>7. ASSUME NEW item \in ToSet(now) PROVE item \in ToSet(first)
      <4>1. item.key \in KeysOf(both)
        BY <3>5 DEF KeysOf
      <4>2. PICK other \in ToSet(both) : other.key = item.key
        BY <4>1 DEF KeysOf
      <4> QED BY <3>4, <3>6, <4>2
    <3> QED BY <3>7
  <2> QED BY <2>1, <2>2 DEF TemplatesInv
<1> QED BY <1>4, <1>5, <1>7, <1>8, <1>9

(* What the data of a key is, if there is any, in what was given.          *)
DataIn(entries, key) == IF key \in DOMAIN DictOf(entries) THEN DictOf(entries)[key] ELSE None

LEMMA HasValueOfData ==
  ASSUME NEW key
  PROVE  HasValue(key) <=> DataIn(given_values, key) # None
<1>1. PICK places : places = EntriesOf(given_values, key)
  OBVIOUS
<1>2. key \in {entry.item.key : entry \in ToSet(given_values)} <=> places # {}
  BY <1>1 DEF EntriesOf, ToSet
<1>3. HasValue(key) <=> places # {} /\ given_values[Max(places)].data # None
  BY <1>1 DEF HasValue
<1>4. DataIn(given_values, key) =
        IF key \in {entry.item.key : entry \in ToSet(given_values)}
        THEN given_values[Max(places)].data ELSE None
  BY <1>1 DEF DataIn, DictOf
<1> QED BY <1>2, <1>3, <1>4

LEMMA NoEntriesNoData ==
  ASSUME NEW key
  PROVE  DataIn(<<>>, key) = None
<1>1. ToSet(<<>>) = {}
  BY DEF ToSet
<1> QED BY <1>1 DEF DataIn, DictOf

LEMMA GivenEntries ==
  ASSUME NEW entries \in GivenValues
  PROVE  /\ entries \in Seq(ToSet(entries))
         /\ [n \in DOMAIN entries |-> entries[n].item] \in Seq(AllNames)
         /\ KeysOf([n \in DOMAIN entries |-> entries[n].item])
              = {entry.item.key : entry \in ToSet(entries)}
         /\ DOMAIN DictOf(entries) = {entry.item.key : entry \in ToSet(entries)}
<1>1. entries \in Seq(ToSet(entries))
  BY ValuesAssumption
<1>2. PICK n \in Nat : n = Len(entries) /\ DOMAIN entries = 1..n
  BY <1>1, LenProperties
<1>3. PICK items : items = [k \in 1..n |-> entries[k].item]
  OBVIOUS
<1>4. \A k \in 1..n : entries[k] \in ToSet(entries)
  BY <1>2 DEF ToSet
<1>5. \A k \in 1..n : entries[k].item \in AllNames
  BY <1>4 DEF AllNames
<1>6. items \in Seq(AllNames) /\ DOMAIN items = 1..n
  BY <1>3, <1>5
<1>7. KeysOf(items) = {entry.item.key : entry \in ToSet(entries)}
  BY <1>2, <1>3 DEF KeysOf, ToSet
<1>8. DOMAIN DictOf(entries) = {entry.item.key : entry \in ToSet(entries)}
  BY DEF DictOf
<1> QED BY <1>1, <1>2, <1>3, <1>6, <1>7, <1>8

(* A template's values: of each key, in one spelling, what was given last. *)
AreValues(values, names, entries) ==
  /\ \E S : values \in Seq(S)
  /\ \A n, m \in DOMAIN values : values[n].item.key = values[m].item.key => n = m
  /\ \A n \in DOMAIN values : values[n].data = DataIn(entries, values[n].item.key)
  /\ {entry.item.key : entry \in ToSet(values)}
       = KeysOf(names) \cup {entry.item.key : entry \in ToSet(entries)}
  /\ \A item \in ToSet(names) : \E n \in DOMAIN values : values[n].item = item

LEMMA ValuesAre ==
  ASSUME NEW names, IsNames(names), NEW entries \in GivenValues
  PROVE  AreValues(ValuesOf(names, entries), names, entries)
<1>1. PICK items : items = [n \in DOMAIN entries |-> entries[n].item]
  OBVIOUS
<1>2. /\ items \in Seq(AllNames)
      /\ KeysOf(items) = {entry.item.key : entry \in ToSet(entries)}
  BY <1>1, GivenEntries
<1>3. PICK keys : keys = Or(names, items)
  OBVIOUS
<1>4. /\ IsNames(keys) /\ KeysOf(keys) = KeysOf(names) \cup KeysOf(items)
      /\ ToSet(names) \subseteq ToSet(keys)
  BY <1>2, <1>3, OrOfNames
<1>5. PICK n \in Nat : n = Len(keys) /\ DOMAIN keys = 1..n
  BY <1>4, LenProperties DEF IsNames
<1>6. PICK values : values = [k \in 1..n |-> [item |-> keys[k], data |-> DataIn(entries, keys[k].key)]]
  OBVIOUS
<1>7. ValuesOf(names, entries) = values
  BY <1>1, <1>3, <1>5, <1>6, Zenon DEF ValuesOf, DataIn
<1>8. DOMAIN values = 1..n /\ \E S : values \in Seq(S)
  <2>1. \A k \in 1..n : values[k] \in ToSet(values)
    BY <1>6 DEF ToSet
  <2>2. DOMAIN values = 1..n
    BY <1>6
  <2>3. values \in Seq(ToSet(values))
    BY <1>6, <2>1, <2>2
  <2> QED BY <2>2, <2>3
<1>9. \A k \in 1..n : values[k].item = keys[k] /\ values[k].data = DataIn(entries, keys[k].key)
  BY <1>6
<1>10. \A k, m \in 1..n : keys[k].key = keys[m].key => k = m
  BY <1>4, <1>5 DEF IsNames, Once
<1>11. {entry.item.key : entry \in ToSet(values)} = KeysOf(keys)
  <2>1. {entry.item.key : entry \in ToSet(values)} = {values[k].item.key : k \in 1..n}
    BY <1>8 DEF ToSet
  <2>2. KeysOf(keys) = {keys[k].key : k \in 1..n}
    BY <1>5 DEF KeysOf, ToSet
  <2>3. \A k \in 1..n : values[k].item.key = keys[k].key
    BY <1>9
  <2>4. {values[k].item.key : k \in 1..n} = {keys[k].key : k \in 1..n}
    BY <2>3
  <2> QED BY <2>1, <2>2, <2>4
<1>12. ASSUME NEW item \in ToSet(names) PROVE \E k \in 1..n : values[k].item = item
  <2>1. item \in ToSet(keys)
    BY <1>4
  <2> QED BY <1>5, <1>9, <2>1 DEF ToSet
<1>13. \A k, m \in DOMAIN values : values[k].item.key = values[m].item.key => k = m
  BY <1>8, <1>9, <1>10
<1>14. \A k \in DOMAIN values : values[k].data = DataIn(entries, values[k].item.key)
  BY <1>8, <1>9
<1>15. {entry.item.key : entry \in ToSet(values)}
         = KeysOf(names) \cup {entry.item.key : entry \in ToSet(entries)}
  BY <1>2, <1>4, <1>11
<1>16. \A item \in ToSet(names) : \E k \in DOMAIN values : values[k].item = item
  BY <1>8, <1>12
<1> QED BY <1>7, <1>8, <1>13, <1>14, <1>15, <1>16 DEF AreValues

(* With values there is for each name what was given last, in whatever     *)
(* spelling; without there is nothing.                                     *)
LEMMA ValuesNow ==
  ASSUME TemplatesInv
  PROVE  /\ \A item \in ToSet(placeholders_now) : ValueSpelt(item) = DataIn(given_values, item.key)
         /\ \A key : DataIn(_values, key) = DataIn(given_values, key)
<1>1. ToSet(placeholders_now) \subseteq ToSet(made) /\ IsNames(made)
  BY NowIsMade
<1>2. CASE given_values = <<>>
  <2>1. _values = <<>>
    BY <1>2 DEF TemplatesInv
  <2>2. \A item : ValueSpelt(item) = None
    BY <2>1 DEF ValueSpelt
  <2> QED BY <1>2, <2>1, <2>2, NoEntriesNoData
<1>3. CASE given_values # <<>>
  <2>1. PICK entries \in GivenValues : entries = given_values
    BY DEF TemplatesInv
  <2>2. AreValues(_values, made, entries)
    BY <1>1, <1>3, <2>1, ValuesAre DEF TemplatesInv
  <2>3. PICK S : _values \in Seq(S)
    BY <2>2 DEF AreValues
  <2>4. PICK n \in Nat : n = Len(_values) /\ DOMAIN _values = 1..n
    BY <2>3, LenProperties
  <2>5. ASSUME NEW item \in ToSet(placeholders_now)
        PROVE  ValueSpelt(item) = DataIn(entries, item.key)
    <3>1. PICK places : places = {k \in 1..n : _values[k].item = item}
      OBVIOUS
    <3>2. places # {}
      BY <1>1, <2>2, <2>4, <3>1 DEF AreValues
    <3>3. Max(places) \in places
      BY <3>1, <3>2, LastPlace
    <3>4. PICK last \in 1..n : last = Max(places) /\ _values[last].item = item
      BY <3>1, <3>3
    <3>5. ValueSpelt(item) = _values[last].data
      BY <2>4, <3>1, <3>2, <3>4 DEF ValueSpelt
    <3> QED BY <2>2, <2>4, <3>4, <3>5 DEF AreValues
  <2>6. ASSUME NEW key PROVE DataIn(_values, key) = DataIn(entries, key)
    <3>1. DOMAIN DictOf(_values) = {entry.item.key : entry \in ToSet(_values)}
      BY DEF DictOf
    <3>2. CASE key \in DOMAIN DictOf(_values)
      <4>1. PICK k \in 1..n : _values[k].item.key = key /\ DictOf(_values)[key] = _values[k].data
        BY <2>3, <2>4, <3>2, LastEntryCounts
      <4> QED BY <2>2, <2>4, <3>2, <4>1 DEF AreValues, DataIn
    <3>3. CASE key \notin DOMAIN DictOf(_values)
      <4>1. key \notin DOMAIN DictOf(entries)
        BY <2>2, <3>1, <3>3, GivenEntries DEF AreValues
      <4> QED BY <3>3, <4>1 DEF DataIn
    <3> QED BY <3>2, <3>3
  <2> QED BY <2>1, <2>5, <2>6
<1> QED BY <1>2, <1>3

(* What is missing.                                                        *)
LEMMA MissingNow ==
  ASSUME TemplatesInv
  PROVE  /\ Len(missing_data) = Cardinality(KeysOf(missing_data))
         /\ KeysOf(missing_data)
              = {key \in KeysOf(placeholders_now) : DataIn(given_values, key) = None}
<1>1. PICK now : now = placeholders_now /\ IsNames(now)
  BY NowIsMade
<1>2. PICK unknown : unknown = {item \in ToSet(now) : ValueSpelt(item) = None}
  OBVIOUS
<1>3. missing_data = Where(now, unknown)
  BY <1>1, <1>2 DEF missing_data
<1>4. Where(now, unknown) \in Seq(AllNames) /\ ToSet(Where(now, unknown)) = ToSet(now) \cap unknown
  BY <1>1, WhereItems DEF IsNames
<1>5. Once(Where(now, unknown))
  BY <1>1, WhereOnce DEF IsNames
<1>6. Len(missing_data) = Cardinality(KeysOf(missing_data))
  BY <1>3, <1>4, <1>5, AsManyAsKeys
<1>7. ToSet(missing_data) = {item \in ToSet(now) : DataIn(given_values, item.key) = None}
  BY <1>1, <1>2, <1>3, <1>4, ValuesNow
<1>8. KeysOf(missing_data) = {key \in KeysOf(now) : DataIn(given_values, key) = None}
  BY <1>7 DEF KeysOf
<1> QED BY <1>1, <1>6, <1>8

(* What is additional.                                                     *)
LEMMA AdditionalNow ==
  ASSUME TemplatesInv
  PROVE  {item.key : item \in additional_data}
           = (IF {entry.item.key : entry \in ToSet(given_values)} = {} THEN {}
              ELSE {entry.item.key : entry \in ToSet(given_values)} \cup KeysOf(made))
             \ KeysOf(placeholders_now)
<1>1. PICK now : now = placeholders_now
  OBVIOUS
<1>2. ToSet(now) \subseteq ToSet(made) /\ IsNames(made) /\ IsNames(now)
  BY <1>1, NowIsMade
<1>3. PICK entries \in GivenValues : entries = given_values
  BY DEF TemplatesInv
<1>4. PICK set : set = {entry.item.key : entry \in ToSet(entries)}
  OBVIOUS
<1>5. additional_data = {entry.item : entry \in ToSet(_values)} \ ToSet(now)
  BY <1>1 DEF additional_data
<1>6. CASE entries = <<>>
  <2>1. _values = <<>> /\ ToSet(<<>>) = {}
    BY <1>3, <1>6 DEF TemplatesInv, ToSet
  <2> QED BY <1>3, <1>4, <1>5, <1>6, <2>1
<1>7. CASE entries # <<>>
  <2>1. AreValues(_values, made, entries)
    BY <1>2, <1>3, <1>7, ValuesAre DEF TemplatesInv
  <2>2. set # {}
    <3>1. entries \in Seq(ToSet(entries))
      BY GivenEntries
    <3>2. PICK n \in Nat : n = Len(entries) /\ DOMAIN entries = 1..n
      BY <3>1, LenProperties
    <3>3. 1 \in DOMAIN entries
      BY <1>7, <3>1, <3>2, EmptySeq
    <3> QED BY <1>4, <3>3 DEF ToSet
  <2>3. \A entry \in ToSet(_values) : entry.item.key \in KeysOf(now) => entry.item \in ToSet(now)
    <3> SUFFICES ASSUME NEW k \in DOMAIN _values, _values[k].item.key \in KeysOf(now)
                 PROVE  _values[k].item \in ToSet(now)
      BY DEF ToSet
    <3>1. PICK item \in ToSet(now) : item.key = _values[k].item.key
      BY DEF KeysOf
    <3>2. PICK m \in DOMAIN _values : _values[m].item = item
      BY <1>2, <2>1 DEF AreValues
    <3>3. m = k
      BY <2>1, <3>1, <3>2 DEF AreValues
    <3> QED BY <3>2, <3>3
  <2>4. \A item \in ToSet(now) : item.key \in KeysOf(now)
    BY DEF KeysOf
  <2>5. {item.key : item \in additional_data} = (set \cup KeysOf(made)) \ KeysOf(now)
    <3>1. {entry.item.key : entry \in ToSet(_values)} = set \cup KeysOf(made)
      BY <1>4, <2>1 DEF AreValues
    <3> QED BY <1>5, <2>3, <2>4, <3>1
  <2> QED BY <1>1, <1>3, <1>4, <2>2, <2>5
<1> QED BY <1>6, <1>7

(* A text is filled part by part.                                          *)
With(known, piece, entries) == known \o Replaced(piece, DictOf(entries))

StaysIn(S, entries) == \A piece \in S : Replaced(piece, DictOf(entries)) \in Seq(S)

InTextSteps(S, entries, body) ==
  \E f \in [0..Len(body) -> Seq(S)] :
    /\ f[0] = <<>>
    /\ \A k \in 1..Len(body) : f[k] = With(f[k - 1], body[k], entries)
    /\ Filled(body, entries) = f[Len(body)]

LEMMA WithIsParts ==
  ASSUME NEW S, NEW entries, NEW known \in Seq(S), NEW piece,
         Replaced(piece, DictOf(entries)) \in Seq(S)
  PROVE  With(known, piece, entries) \in Seq(S)
<1>1. PICK others \in Seq(S) : others = Replaced(piece, DictOf(entries))
  OBVIOUS
<1>2. known \o others \in Seq(S)
  OBVIOUS
<1> QED BY <1>1, <1>2 DEF With

LEMMA FilledTextSteps ==
  ASSUME NEW S, NEW entries, StaysIn(S, entries), NEW body \in Seq(S)
  PROVE  InTextSteps(S, entries, body)
<1>0. PICK n \in Nat : n = Len(body)
  BY LenProperties
<1>1. PICK V : V = Seq(S)
  OBVIOUS
<1>2. DOMAIN body = 1..n /\ <<>> \in V /\ \A k \in 1..n : body[k] \in S
  BY <1>0, <1>1
<1>3. PICK h : h = [v \in V |-> [k \in 1..n |-> With(v, body[k], entries)]]
  OBVIOUS
<1>4. h \in Changes(n, V)
  <2>1. \A v \in V, k \in 1..n : With(v, body[k], entries) \in V
    BY <1>0, <1>1, <1>2, WithIsParts DEF StaysIn
  <2> QED BY <1>3, <2>1 DEF Changes
<1> DEFINE IsFold(g) ==
      g = [s \in SUBSET DOMAIN body |->
             IF s = {} THEN <<>> ELSE With(g[Except(s)], body[Max(s)], entries)]
<1>5. \E g : IsFold(g)
  <2>1. PICK g \in [SUBSET (1..n) -> V] : IsFoldOf(g, n, <<>>, h)
    BY <1>2, <1>4, FoldExists, Zenon
  <2>2. ASSUME NEW s \in SUBSET (1..n), s # {}
        PROVE  h[g[Except(s)]][Max(s)] = With(g[Except(s)], body[Max(s)], entries)
    <3>1. Max(s) \in 1..n /\ Except(s) \in SUBSET (1..n)
      BY <2>2, LastPlace DEF Except
    <3> QED BY <1>3, <2>1, <3>1
  <2>3. IsFold(g)
    BY <1>2, <2>1, <2>2 DEF IsFoldOf
  <2> QED BY <2>3
<1>6. PICK iter : iter = (CHOOSE g : IsFold(g))
  OBVIOUS
<1>7. IsFold(iter)
  <2> HIDE DEF IsFold
  <2> QED BY <1>5, <1>6
<1>8. Filled(body, entries) = iter[1..n]
  BY <1>2, <1>6, Zenon DEF Filled, With, FoldLeft, MapThenFoldSet, Except
<1>9. iter[{}] = <<>>
  BY <1>7
<1>10. FollowsFrom(iter, n, V, h)
  <2>1. ASSUME NEW s \in SUBSET (1..n), s # {}, iter[Except(s)] \in V
        PROVE  iter[s] = h[iter[Except(s)]][Max(s)]
    <3>1. Max(s) \in 1..n
      BY <2>1, LastPlace
    <3> QED BY <1>2, <1>3, <1>7, <2>1, <3>1
  <2> QED BY <2>1 DEF FollowsFrom
<1>11. PICK f \in [0..n -> V] : Steps(f, n, <<>>, h) /\ iter[1..n] = f[n]
  <2> HIDE DEF IsFold
  <2> QED BY <1>2, <1>4, <1>9, <1>10, FoldSteps
<1>12. ASSUME NEW k \in 1..n PROVE f[k] = With(f[k - 1], body[k], entries)
  <2>1. f[k - 1] \in V
    <3>1. k - 1 \in 0..n
      BY <1>0
    <3> QED BY <1>11, <3>1
  <2> QED BY <1>3, <1>11, <2>1 DEF Steps
<1> QED BY <1>0, <1>1, <1>8, <1>11, <1>12 DEF Steps, InTextSteps

LEMMA AmongBoth ==
  ASSUME NEW S, NEW first \in Seq(S), NEW second \in Seq(S), NEW item
  PROVE  Among(item, first \o second) <=> Among(item, first) \/ Among(item, second)
<1>1. PICK n \in Nat, m \in Nat : n = Len(first) /\ m = Len(second)
  BY LenProperties
<1>2. PICK both : both = first \o second
  OBVIOUS
<1>3. /\ Len(both) = n + m
      /\ \A k \in 1..n + m : both[k] = IF k <= n THEN first[k] ELSE second[k - n]
  BY <1>1, <1>2, ConcatProperties
<1>4. ASSUME NEW k \in 1..n PROVE k \in 1..n + m /\ k <= n
  BY <1>1
<1>5. ASSUME NEW k \in 1..m PROVE n + k \in 1..n + m /\ ~(n + k <= n) /\ (n + k) - n = k
  BY <1>1
<1>6. ASSUME NEW k \in 1..n + m, ~(k <= n) PROVE k - n \in 1..m
  BY <1>1, <1>6
<1>7. \A k \in 1..n + m : k <= n => k \in 1..n
  BY <1>1
<1>8. Among(item, both) => Among(item, first) \/ Among(item, second)
  BY <1>1, <1>3, <1>6, <1>7 DEF Among
<1>9. Among(item, first) => Among(item, both)
  BY <1>1, <1>3, <1>4 DEF Among
<1>10. Among(item, second) => Among(item, both)
  BY <1>1, <1>3, <1>5 DEF Among
<1> QED BY <1>2, <1>8, <1>9, <1>10

LEMMA FilledItems ==
  ASSUME NEW S, NEW entries,
         StaysIn(S, entries),
         NEW body \in Seq(S)
  PROVE  /\ Filled(body, entries) \in Seq(S)
         /\ ToSet(Filled(body, entries))
              = UNION {ToSet(Replaced(piece, DictOf(entries))) : piece \in ToSet(body)}
<1>1. PICK n \in Nat : n = Len(body) /\ DOMAIN body = 1..n /\ \A k \in 1..n : body[k] \in S
  BY LenProperties
<1>2. PICK f \in [0..n -> Seq(S)] :
        /\ f[0] = <<>> /\ Filled(body, entries) = f[n]
        /\ \A k \in 1..n : f[k] = With(f[k - 1], body[k], entries)
  <2>1. \E f \in [0..Len(body) -> Seq(S)] :
           /\ f[0] = <<>>
           /\ \A k \in 1..Len(body) : f[k] = With(f[k - 1], body[k], entries)
           /\ Filled(body, entries) = f[Len(body)]
    BY FilledTextSteps DEF InTextSteps
  <2> QED BY <1>1, <2>1
<1> DEFINE In(k, item) == Among(item, Replaced(body[k], DictOf(entries)))
           P(k) == \A item : Among(item, f[k]) <=> \E m \in 1..k : In(m, item)
           T == {k \in 0..n : P(k)}
<1>3. P(0)
  <2>1. Len(f[0]) = 0
    BY <1>2
  <2> QED BY <2>1 DEF Among
<1>4. ASSUME NEW k \in 0..n, P(k), k < n PROVE P(k + 1)
  <2>1. k + 1 \in 1..n /\ (k + 1) - 1 = k /\ k \in Nat
    BY <1>4
  <2>2. PICK some \in Seq(S), new \in Seq(S) :
          some = f[k] /\ new = Replaced(body[k + 1], DictOf(entries))
    <3>1. f[k] \in Seq(S)
      BY <1>2
    <3>2. Replaced(body[k + 1], DictOf(entries)) \in Seq(S)
      BY <1>1, <2>1 DEF StaysIn
    <3> QED BY <3>1, <3>2
  <2>3. f[k + 1] = some \o new
    BY <1>2, <2>1, <2>2 DEF With
  <2>4. \A item : Among(item, f[k + 1]) <=> Among(item, some) \/ Among(item, new)
    BY <2>2, <2>3, AmongBoth
  <2>5. \A item : In(k + 1, item) <=> Among(item, new)
    BY <2>2
  <2>6. \A item : Among(item, some) <=> \E m \in 1..k : In(m, item)
    BY <1>4, <2>2
  <2>7. 1..(k + 1) = 1..k \cup {k + 1}
    BY <2>1
  <2> HIDE DEF In
  <2> QED BY <2>4, <2>5, <2>6, <2>7
<1>5. 0 \in T /\ \A k \in 0..n : k \in T /\ k < n => k + 1 \in T
  <2> HIDE DEF P
  <2>1. 0 \in 0..n /\ \A k \in 0..n : k < n => k + 1 \in 0..n
    OBVIOUS
  <2> QED BY <1>3, <1>4, <2>1, Zenon
<1>6. \A k \in 0..n : k \in T
  <2> HIDE DEF T
  <2> QED BY <1>5, StepByStep
<1>7. n \in 0..n
  OBVIOUS
<1>8. P(n) /\ f[n] \in Seq(S)
  <2> HIDE DEF P
  <2> QED BY <1>2, <1>6, <1>7
<1>9. \A item : item \in ToSet(f[n]) <=> \E m \in 1..n : In(m, item)
  <2> HIDE DEF In
  <2> QED BY <1>8, AmongThem
<1>10. \A item : \A m \in 1..n : In(m, item) <=> item \in ToSet(Replaced(body[m], DictOf(entries)))
  BY <1>1, AmongThem DEF StaysIn
<1>11. ToSet(body) = {body[m] : m \in 1..n}
  BY <1>1 DEF ToSet
<1> HIDE DEF In
<1> QED BY <1>2, <1>8, <1>9, <1>10, <1>11

(* What can stand in a filled text, and what stands there.                 *)
AllEntries == UNION {ToSet(entries) : entries \in GivenValues}
WordsOf(entry) == {[name |-> NoName, text |-> word] : word \in ToSet(Head(entry.data))}
Pieces == Parts \cup UNION {WordsOf(entry) : entry \in {other \in AllEntries : other.data # None}}

LEMMA ReplacedBy ==
  ASSUME NEW piece, NEW entries
  PROVE  Replaced(piece, DictOf(entries)) =
           IF IsText(piece) \/ DataIn(entries, piece.name.key) = None THEN <<piece>>
           ELSE [n \in DOMAIN Head(DataIn(entries, piece.name.key)) |->
                   [name |-> NoName, text |-> Head(DataIn(entries, piece.name.key))[n]]]
<1>1. PICK dict, data : dict = DictOf(entries) /\ data = DataIn(entries, piece.name.key)
  OBVIOUS
<1>2. data = IF piece.name.key \in DOMAIN dict THEN dict[piece.name.key] ELSE None
  BY <1>1 DEF DataIn
<1>3. Replaced(piece, dict) =
        IF IsText(piece) \/ data = None THEN <<piece>>
        ELSE [n \in DOMAIN Head(data) |-> [name |-> NoName, text |-> Head(data)[n]]]
  BY <1>2, Zenon DEF Replaced
<1> QED BY <1>1, <1>3

LEMMA GivenWords ==
  ASSUME NEW entries \in GivenValues, NEW key, DataIn(entries, key) # None
  PROVE  /\ Head(DataIn(entries, key)) \in Seq(ToSet(Head(DataIn(entries, key))))
         /\ \A word \in ToSet(Head(DataIn(entries, key))) :
              [name |-> NoName, text |-> word] \in Pieces
<1>1. key \in DOMAIN DictOf(entries) /\ DataIn(entries, key) = DictOf(entries)[key]
  BY DEF DataIn
<1>2. entries \in Seq(ToSet(entries))
  BY ValuesAssumption
<1>3. PICK k \in 1..Len(entries) : DictOf(entries)[key] = entries[k].data
  BY <1>1, <1>2, LastEntryCounts
<1>4. PICK entry \in ToSet(entries) : entry.data = DataIn(entries, key)
  <2>1. DOMAIN entries = 1..Len(entries)
    BY <1>2, LenProperties
  <2>2. entries[k] \in ToSet(entries)
    BY <2>1 DEF ToSet
  <2> QED BY <1>1, <1>3, <2>2
<1>5. Head(entry.data) \in Seq(ToSet(Head(entry.data)))
  BY <1>4, ValuesAssumption
<1>6. entry \in AllEntries
  BY DEF AllEntries
<1>7. WordsOf(entry) \subseteq Pieces
  <2>1. entry \in {other \in AllEntries : other.data # None}
    BY <1>4, <1>6
  <2> QED BY <2>1 DEF Pieces
<1>8. \A word \in ToSet(Head(entry.data)) : [name |-> NoName, text |-> word] \in Pieces
  BY <1>7 DEF WordsOf
<1> QED BY <1>4, <1>5, <1>8

(* A placeholder with a value gives way to its words, others stay.         *)
LEMMA ReplacedNow ==
  ASSUME TemplatesInv, NEW piece \in Pieces
  PROVE  /\ Replaced(piece, DictOf(_values)) \in Seq(Pieces)
         /\ IsText(piece) \/ DataIn(given_values, piece.name.key) = None
              => ToSet(Replaced(piece, DictOf(_values))) = {piece}
         /\ ~(IsText(piece) \/ DataIn(given_values, piece.name.key) = None)
              => \A other \in ToSet(Replaced(piece, DictOf(_values))) : IsText(other)
<1>0. PICK entries \in GivenValues : entries = given_values
  BY DEF TemplatesInv
<1>1. PICK data : entries = given_values /\ data = DataIn(entries, piece.name.key)
  BY <1>0
<1>2. DataIn(_values, piece.name.key) = data
  BY <1>1, ValuesNow
<1>3. PICK others : others = Replaced(piece, DictOf(_values))
  OBVIOUS
<1>4. others = IF IsText(piece) \/ data = None THEN <<piece>>
               ELSE [n \in DOMAIN Head(data) |-> [name |-> NoName, text |-> Head(data)[n]]]
  BY <1>2, <1>3, ReplacedBy
<1>5. CASE IsText(piece) \/ data = None
  <2>1. others = <<piece>>
    BY <1>4, <1>5
  <2>2. others \in Seq(Pieces) /\ DOMAIN others = 1..1 /\ others[1] = piece
    BY <2>1
  <2>3. ToSet(others) = {piece}
    BY <2>2 DEF ToSet
  <2> QED BY <1>1, <1>3, <1>5, <2>2, <2>3
<1>6. CASE ~(IsText(piece) \/ data = None)
  <2>1. PICK words : words = Head(data)
    OBVIOUS
  <2>2. /\ words \in Seq(ToSet(words))
        /\ \A word \in ToSet(words) : [name |-> NoName, text |-> word] \in Pieces
    BY <1>1, <1>6, <2>1, GivenWords
  <2>3. PICK n \in Nat : n = Len(words) /\ DOMAIN words = 1..n
    BY <2>2, LenProperties
  <2>4. others = [k \in 1..n |-> [name |-> NoName, text |-> words[k]]]
    BY <1>4, <1>6, <2>1, <2>3
  <2>5. \A k \in 1..n : words[k] \in ToSet(words)
    BY <2>3 DEF ToSet
  <2>6. \A k \in 1..n : others[k] \in Pieces /\ IsText(others[k])
    BY <2>2, <2>4, <2>5 DEF IsText
  <2>7. DOMAIN others = 1..n /\ others \in Seq(Pieces)
    BY <2>4, <2>6
  <2>8. \A other \in ToSet(others) : IsText(other)
    BY <2>6, <2>7 DEF ToSet
  <2> QED BY <1>1, <1>3, <1>6, <2>7, <2>8
<1> QED BY <1>5, <1>6

LEMMA FilledNow ==
  ASSUME TemplatesInv, NEW body \in Seq(Parts)
  PROVE  /\ Filled(body, _values) \in Seq(Pieces)
         /\ \A piece : piece \in ToSet(Filled(body, _values)) /\ ~IsText(piece)
              <=> /\ piece \in ToSet(body) /\ ~IsText(piece)
                  /\ DataIn(given_values, piece.name.key) = None
         /\ \A piece \in ToSet(body) : IsText(piece) => piece \in ToSet(Filled(body, _values))
<1>1. PICK filled, entries : filled = Filled(body, entries) /\ entries = _values
  OBVIOUS
<1>2. Parts \subseteq Pieces
  BY DEF Pieces
<1>3. body \in Seq(Pieces)
  BY <1>2
<1>4. ToSet(body) \subseteq Pieces
  <2>1. PICK n \in Nat : n = Len(body) /\ DOMAIN body = 1..n /\ \A k \in 1..n : body[k] \in Pieces
    BY <1>3, LenProperties
  <2> QED BY <2>1 DEF ToSet
<1>5. StaysIn(Pieces, entries)
  BY <1>1, ReplacedNow DEF StaysIn
<1>6. PICK shown : shown = [piece \in Pieces |-> ToSet(Replaced(piece, DictOf(entries)))]
  OBVIOUS
<1>7. /\ filled \in Seq(Pieces)
      /\ \A item : item \in ToSet(filled) <=> \E piece \in ToSet(body) : item \in shown[piece]
  <2>1. /\ filled \in Seq(Pieces)
        /\ ToSet(filled) = UNION {ToSet(Replaced(piece, DictOf(entries))) : piece \in ToSet(body)}
    BY <1>1, <1>3, <1>5, FilledItems
  <2>2. \A piece \in ToSet(body) : ToSet(Replaced(piece, DictOf(entries))) = shown[piece]
    BY <1>4, <1>6
  <2> QED BY <2>1, <2>2
<1>8. \A piece \in ToSet(body) :
        /\ IsText(piece) \/ DataIn(given_values, piece.name.key) = None => shown[piece] = {piece}
        /\ ~(IsText(piece) \/ DataIn(given_values, piece.name.key) = None)
             => \A other \in shown[piece] : IsText(other)
  BY <1>1, <1>4, <1>6, ReplacedNow
<1>9. ASSUME NEW piece, piece \in ToSet(filled), ~IsText(piece)
      PROVE  piece \in ToSet(body) /\ DataIn(given_values, piece.name.key) = None
  <2>1. PICK from \in ToSet(body) : piece \in shown[from]
    BY <1>7, <1>9
  <2>2. shown[from] = {from}
    BY <1>8, <1>9, <2>1
  <2> QED BY <1>8, <1>9, <2>1, <2>2
<1>10. ASSUME NEW piece \in ToSet(body),
              IsText(piece) \/ DataIn(given_values, piece.name.key) = None
       PROVE  piece \in ToSet(filled)
  BY <1>7, <1>8, <1>10
<1> QED BY <1>1, <1>7, <1>9, <1>10, Zenon

LEMMA ShownNow ==
  ASSUME TemplatesInv, NEW body \in Seq(Parts),
         KeysOf(get_placeholders(body)) \subseteq KeysOf(placeholders_now)
  PROVE  KeysOf(get_placeholders(Filled(body, _values)))
           = KeysOf(get_placeholders(body)) \cap KeysOf(missing_data)
<1>1. PICK filled : filled = Filled(body, _values)
  OBVIOUS
<1>2. /\ filled \in Seq(Pieces)
      /\ \A piece : piece \in ToSet(filled) /\ ~IsText(piece)
           <=> /\ piece \in ToSet(body) /\ ~IsText(piece)
               /\ DataIn(given_values, piece.name.key) = None
  BY <1>1, FilledNow
<1>3. KeysOf(get_placeholders(filled))
        = {piece.name.key : piece \in {other \in ToSet(filled) : ~IsText(other)}}
  BY <1>2, PlaceholdersOf
<1>4. KeysOf(get_placeholders(body))
        = {piece.name.key : piece \in {other \in ToSet(body) : ~IsText(other)}}
  BY PlaceholdersOf
<1>5. KeysOf(missing_data)
        = {key \in KeysOf(placeholders_now) : DataIn(given_values, key) = None}
  BY MissingNow
<1>6. ASSUME NEW key PROVE key \in KeysOf(get_placeholders(filled)) <=>
        key \in KeysOf(get_placeholders(body)) /\ DataIn(given_values, key) = None
  BY <1>2, <1>3, <1>4
<1> QED BY <1>1, <1>5, <1>6

(* Nothing is left of a text in which there are only spaces.               *)
OnlySpaces(body) == ToSet(body) \subseteq {Space}

LEMMA OnlySpacesGo ==
  ASSUME NEW S, NEW body \in Seq(S)
  PROVE  /\ (Strip(body) = <<>>) <=> OnlySpaces(body)
         /\ (Len(Strip(body)) = 0) <=> OnlySpaces(body)
<1>1. PICK n \in Nat : n = Len(body) /\ DOMAIN body = 1..n
  BY LenProperties
<1>2. PICK written : written = {k \in 1..n : body[k] # Space}
  OBVIOUS
<1>3. Strip(body) = IF written = {} THEN <<>> ELSE SubSeq(body, Min(written), Max(written))
  BY <1>1, <1>2 DEF Strip
<1>4. (written = {}) <=> OnlySpaces(body)
  BY <1>1, <1>2 DEF ToSet, OnlySpaces
<1>5. Len(<<>>) = 0
  OBVIOUS
<1>6. CASE written = {}
  BY <1>3, <1>4, <1>5, <1>6
<1>7. CASE written # {}
  <2>1. Min(written) \in written /\ Max(written) \in written /\ Min(written) <= Max(written)
    BY <1>2, <1>7, LeastPlace, LastPlace
  <2>2. PICK first \in 1..n, last \in 1..n : first = Min(written) /\ last = Max(written) /\ first <= last
    BY <1>2, <2>1
  <2>3. Strip(body) = SubSeq(body, first, last)
    BY <1>3, <1>7, <2>2
  <2>4. Len(SubSeq(body, first, last)) = last - first + 1
    BY <1>1, <2>2, SubSeqProperties
  <2>5. Len(Strip(body)) # 0
    BY <2>2, <2>3, <2>4
  <2> QED BY <1>4, <1>5, <1>7, <2>5
<1> QED BY <1>6, <1>7

(* When a message is empty.                                                *)
LEMMA EmptyNow ==
  ASSUME TemplatesInv
  PROVE  is_message_empty <=>
           /\ Strip(Filled(content, _values)) = <<>>
           /\ content # <<>> => Space \notin {Head(content), Last(content)}
<1>1. PICK body \in Seq(Parts) : body = content
  BY NowIsMade
<1>2. PICK filled : filled = Filled(body, _values)
  OBVIOUS
<1>3. /\ filled \in Seq(Pieces)
      /\ \A piece : piece \in ToSet(filled) /\ ~IsText(piece) => piece \in ToSet(body)
      /\ \A piece \in ToSet(body) : IsText(piece) => piece \in ToSet(filled)
  BY <1>2, FilledNow
<1>4. /\ (Strip(filled) = <<>>) <=> OnlySpaces(filled)
      /\ (Len(Strip(filled)) = 0) <=> OnlySpaces(filled)
  BY <1>3, OnlySpacesGo
<1>5. IsText(Space)
  BY DEF IsText, Space
<1>6. is_message_empty <=>
        \/ body = <<>>
        \/ ~IsText(Head(body)) /\ ~IsText(Last(body)) /\ Len(Strip(filled)) = 0
  BY <1>1, <1>2 DEF is_message_empty, content_count_of
<1>7. CASE body = <<>>
  <2>1. ToSet(body) = {}
    BY <1>7 DEF ToSet
  <2>2. ToSet(filled) = {}
    <3>1. StaysIn(Pieces, _values)
      BY ReplacedNow DEF StaysIn
    <3>2. Parts \subseteq Pieces
      BY DEF Pieces
    <3>3. body \in Seq(Pieces)
      BY <3>2
    <3>4. ToSet(filled) = UNION {ToSet(Replaced(piece, DictOf(_values))) : piece \in ToSet(body)}
      BY <1>2, <3>1, <3>3, FilledItems
    <3> QED BY <2>1, <3>4
  <2> QED BY <1>1, <1>2, <1>4, <1>6, <1>7, <2>2 DEF OnlySpaces
<1>8. CASE body # <<>>
  <2>1. PICK n \in Nat : n = Len(body) /\ DOMAIN body = 1..n
    BY LenProperties
  <2>2. n >= 1
    BY <1>8, <2>1, EmptySeq
  <2>3. PICK first, last : first = Head(body) /\ last = Last(body)
    OBVIOUS
  <2>4. first \in ToSet(body) /\ last \in ToSet(body)
    <3>1. first = body[1] /\ last = body[n]
      BY <2>1, <2>2, <2>3 DEF Last
    <3> QED BY <2>1, <2>2, <3>1 DEF ToSet
  <2>5. \A piece \in {first, last} : OnlySpaces(filled) => (~IsText(piece) <=> Space # piece)
    BY <1>3, <1>5, <2>4 DEF OnlySpaces
  <2> QED BY <1>1, <1>2, <1>4, <1>6, <1>8, <2>3, <2>5
<1> QED BY <1>7, <1>8

(* Whatever values are set, however often and in whatever spelling, what a *)
(* template says is missing, additional or empty agrees with the text that *)
(* goes out.                                                               *)
THEOREM TemplatesAlwaysAnswer == TemplatesSpec => []AnswersAreOfTheText
<1>1. TemplatesInv => AnswersAreOfTheText
  <2> SUFFICES ASSUME TemplatesInv PROVE AnswersAreOfTheText
    OBVIOUS
  <2>1. \A key : HasValue(key) <=> DataIn(given_values, key) # None
    BY HasValueOfData
  <2>2. /\ Len(missing_data) = Cardinality(KeysOf(missing_data))
        /\ KeysOf(missing_data) = {key \in KeysOf(placeholders_now) : ~HasValue(key)}
    BY <2>1, MissingNow
  <2>3. \A body \in {_subject, content} :
          KeysOf(get_placeholders(Filled(body, _values)))
            = KeysOf(get_placeholders(body)) \cap KeysOf(missing_data)
    BY NowIsMade, ShownNow
  <2>4. {item.key : item \in additional_data}
          = (IF {entry.item.key : entry \in ToSet(given_values)} = {} THEN {}
             ELSE {entry.item.key : entry \in ToSet(given_values)} \cup KeysOf(made))
            \ KeysOf(placeholders_now)
    BY AdditionalNow
  <2>5. is_message_empty <=>
          /\ Strip(Filled(content, _values)) = <<>>
          /\ content # <<>> => Space \notin {Head(content), Last(content)}
    BY EmptyNow
  <2> QED BY <2>2, <2>3, <2>4, <2>5, Zenon DEF AnswersAreOfTheText
<1> QED BY <1>1, TemplatesInductive, PTL

-----------------------------------------------------------------------------
(* PostalAddress.  The lines of an address, line by line.                  *)
KnownOf(lines) ==
  FoldLeft(LAMBDA known, line :
             IF known.skip_next THEN [known EXCEPT !.skip_next = FALSE]
             ELSE IF IsReturnAddress(line) THEN known
             ELSE IF IsLabel(line) THEN [known EXCEPT !.skip_next = TRUE]
             ELSE [known EXCEPT !.filtered = Append(@, line)],
           [filtered |-> <<>>, skip_next |-> FALSE], lines)

Looked(known, line) ==
  IF known.skip_next THEN [known EXCEPT !.skip_next = FALSE]
  ELSE IF IsReturnAddress(line) THEN known
  ELSE IF IsLabel(line) THEN [known EXCEPT !.skip_next = TRUE]
  ELSE [known EXCEPT !.filtered = Append(@, line)]

KnownIn(S) == [filtered : Seq(S), skip_next : BOOLEAN]
NothingKnown == [filtered |-> <<>>, skip_next |-> FALSE]

LEMMA LookedIsKnown ==
  ASSUME NEW S, NEW known \in KnownIn(S), NEW line \in S
  PROVE  Looked(known, line) \in KnownIn(S)
<1>1. Append(known.filtered, line) \in Seq(S)
  BY Appended DEF KnownIn
<1> QED BY <1>1 DEF Looked, KnownIn

LEMMA KnownSteps ==
  ASSUME NEW S, NEW lines \in Seq(S)
  PROVE  \E f \in [0..Len(lines) -> KnownIn(S)] :
           /\ f[0] = NothingKnown
           /\ \A k \in 1..Len(lines) : f[k] = Looked(f[k - 1], lines[k])
           /\ KnownOf(lines) = f[Len(lines)]
<1>0. PICK n \in Nat : n = Len(lines)
  BY LenProperties
<1>1. PICK V : V = KnownIn(S)
  OBVIOUS
<1>2. DOMAIN lines = 1..n /\ NothingKnown \in V /\ \A k \in 1..n : lines[k] \in S
  BY <1>0, <1>1 DEF KnownIn, NothingKnown
<1>3. PICK h : h = [v \in V |-> [k \in 1..n |-> Looked(v, lines[k])]]
  OBVIOUS
<1>4. h \in Changes(n, V)
  <2>1. \A v \in V, k \in 1..n : Looked(v, lines[k]) \in V
    BY <1>0, <1>1, <1>2, LookedIsKnown
  <2> QED BY <1>3, <2>1 DEF Changes
<1> DEFINE IsFold(g) ==
      g = [s \in SUBSET DOMAIN lines |->
             IF s = {} THEN NothingKnown ELSE Looked(g[Except(s)], lines[Max(s)])]
<1>5. \E g : IsFold(g)
  <2>1. PICK g \in [SUBSET (1..n) -> V] : IsFoldOf(g, n, NothingKnown, h)
    BY <1>2, <1>4, FoldExists, Zenon
  <2>2. ASSUME NEW s \in SUBSET (1..n), s # {}
        PROVE  h[g[Except(s)]][Max(s)] = Looked(g[Except(s)], lines[Max(s)])
    <3>1. Max(s) \in 1..n /\ Except(s) \in SUBSET (1..n)
      BY <2>2, LastPlace DEF Except
    <3> QED BY <1>3, <2>1, <3>1
  <2>3. IsFold(g)
    BY <1>2, <2>1, <2>2 DEF IsFoldOf
  <2> QED BY <2>3
<1>6. PICK iter : iter = (CHOOSE g : IsFold(g))
  OBVIOUS
<1>7. IsFold(iter)
  <2> HIDE DEF IsFold
  <2> QED BY <1>5, <1>6
<1>8. KnownOf(lines) = iter[1..n]
  BY <1>2, <1>6, Zenon DEF KnownOf, NothingKnown, Looked, FoldLeft, MapThenFoldSet, Except
<1>9. iter[{}] = NothingKnown
  BY <1>7
<1>10. FollowsFrom(iter, n, V, h)
  <2>1. ASSUME NEW s \in SUBSET (1..n), s # {}, iter[Except(s)] \in V
        PROVE  iter[s] = h[iter[Except(s)]][Max(s)]
    <3>1. Max(s) \in 1..n
      BY <2>1, LastPlace
    <3> QED BY <1>2, <1>3, <1>7, <2>1, <3>1
  <2> QED BY <2>1 DEF FollowsFrom
<1>11. PICK f \in [0..n -> V] : Steps(f, n, NothingKnown, h) /\ iter[1..n] = f[n]
  <2> HIDE DEF IsFold
  <2> QED BY <1>2, <1>4, <1>9, <1>10, FoldSteps
<1>12. ASSUME NEW k \in 1..n PROVE f[k] = Looked(f[k - 1], lines[k])
  <2>1. f[k - 1] \in V
    BY <1>0, <1>11
  <2> QED BY <1>3, <1>11, <2>1 DEF Steps
<1> QED BY <1>0, <1>1, <1>8, <1>11, <1>12 DEF Steps
(* Of a recipient's own lines all are known; of others, some.              *)
Clean(lines) == \A k \in 1..Len(lines) : ~IsReturnAddress(lines[k]) /\ ~IsLabel(lines[k])
OwnOf(lines) == {line \in ToSet(lines) : ~IsReturnAddress(line) /\ ~IsLabel(line)}

LEMMA RecipientLinesAre ==
  ASSUME NEW S, NEW lines \in Seq(S)
  PROVE  /\ RecipientLines(lines) \in Seq(S)
         /\ ToSet(RecipientLines(lines)) \subseteq OwnOf(lines)
         /\ Clean(lines) => RecipientLines(lines) = lines
<1>1. PICK n \in Nat : n = Len(lines) /\ \A k \in 1..n : lines[k] \in S
  BY LenProperties
<1>2. PICK f \in [0..n -> KnownIn(S)] :
        /\ f[0] = NothingKnown /\ KnownOf(lines) = f[n]
        /\ \A k \in 1..n : f[k] = Looked(f[k - 1], lines[k])
  <2>1. \E f \in [0..Len(lines) -> KnownIn(S)] :
           /\ f[0] = NothingKnown
           /\ \A k \in 1..Len(lines) : f[k] = Looked(f[k - 1], lines[k])
           /\ KnownOf(lines) = f[Len(lines)]
    BY KnownSteps, Zenon
  <2> QED BY <1>1, <2>1
<1> DEFINE P(k) ==
             /\ \A line : Among(line, f[k].filtered) =>
                  /\ \E d \in 1..k : lines[d] = line
                  /\ ~IsReturnAddress(line) /\ ~IsLabel(line)
             /\ Clean(lines) => f[k] = [filtered |-> SubSeq(lines, 1, k), skip_next |-> FALSE]
           T == {k \in 0..n : P(k)}
<1>3. P(0)
  <2>1. SubSeq(lines, 1, 0) = <<>> /\ Len(<<>>) = 0
    BY SubSeqEmpty
  <2>2. f[0] = [filtered |-> <<>>, skip_next |-> FALSE]
    BY <1>2 DEF NothingKnown
  <2>3. \A line : ~Among(line, f[0].filtered)
    BY <2>1, <2>2 DEF Among
  <2> QED BY <2>1, <2>2, <2>3
<1>4. ASSUME NEW k \in 0..n, P(k), k < n PROVE P(k + 1)
  <2>1. k + 1 \in 1..n /\ (k + 1) - 1 = k /\ k \in Nat
    BY <1>1, <1>4
  <2>2. PICK known \in KnownIn(S), new \in S : known = f[k] /\ new = lines[k + 1]
    BY <1>1, <1>2, <2>1
  <2>3. f[k + 1] = Looked(known, new)
    BY <1>2, <2>1, <2>2
  <2>4. 1..(k + 1) = 1..k \cup {k + 1}
    BY <2>1
  <2>5. \/ f[k + 1].filtered = known.filtered
        \/ f[k + 1].filtered = Append(known.filtered, new) /\ ~IsReturnAddress(new) /\ ~IsLabel(new)
    BY <2>3 DEF Looked, KnownIn
  <2>6. \A line : Among(line, Append(known.filtered, new)) => Among(line, known.filtered) \/ line = new
    <3>1. PICK some \in Seq(S), m \in Nat : some = known.filtered /\ m = Len(some)
      BY LenProperties DEF KnownIn
    <3>2. PICK more : more = Append(some, new)
      OBVIOUS
    <3>3. Len(more) = m + 1 /\ more[m + 1] = new /\ \A l \in 1..m : more[l] = some[l]
      BY <3>1, <3>2, Appended
    <3>4. 1..(m + 1) = 1..m \cup {m + 1}
      BY <3>1
    <3> QED BY <3>1, <3>2, <3>3, <3>4 DEF Among
  <2>7. ASSUME NEW line, Among(line, f[k + 1].filtered)
        PROVE  (\E d \in 1..(k + 1) : lines[d] = line) /\ ~IsReturnAddress(line) /\ ~IsLabel(line)
    <3>1. Among(line, known.filtered) \/ (line = new /\ ~IsReturnAddress(new) /\ ~IsLabel(new))
      BY <2>5, <2>6, <2>7
    <3> QED BY <1>4, <2>2, <2>4, <3>1
  <2>8. ASSUME Clean(lines)
        PROVE  f[k + 1] = [filtered |-> SubSeq(lines, 1, k + 1), skip_next |-> FALSE]
    <3>1. known = [filtered |-> SubSeq(lines, 1, k), skip_next |-> FALSE]
      BY <1>4, <2>2, <2>8
    <3>2. ~IsReturnAddress(new) /\ ~IsLabel(new)
      BY <1>1, <2>1, <2>2, <2>8 DEF Clean
    <3>3. f[k + 1] = [known EXCEPT !.filtered = Append(@, new)]
      BY <2>3, <3>1, <3>2 DEF Looked
    <3>4. SubSeq(lines, 1, k + 1) = SubSeq(lines, 1, (k + 1) - 1) \o <<lines[k + 1]>>
      <4>1. 1 \in 1..Len(lines) /\ k + 1 \in 1..Len(lines)
        BY <1>1, <2>1
      <4> QED BY <4>1, SubSeqRecursiveSecond
    <3>5. SubSeq(lines, 1, k) \in Seq(S)
      BY <2>2, <3>1 DEF KnownIn
    <3>6. Append(SubSeq(lines, 1, k), new) = SubSeq(lines, 1, k) \o <<new>>
      BY <3>5, AppendIsConcat
    <3>7. SubSeq(lines, 1, k + 1) = Append(SubSeq(lines, 1, k), new)
      BY <2>1, <2>2, <3>4, <3>6
    <3>8. f[k + 1] = [filtered |-> Append(SubSeq(lines, 1, k), new), skip_next |-> FALSE]
      BY <3>1, <3>3
    <3> QED BY <3>7, <3>8
  <2> QED BY <2>7, <2>8
<1>5. 0 \in T /\ \A k \in 0..n : k \in T /\ k < n => k + 1 \in T
  <2> HIDE DEF P
  <2>1. 0 \in 0..n /\ \A k \in 0..n : k < n => k + 1 \in 0..n
    OBVIOUS
  <2> QED BY <1>3, <1>4, <2>1, Zenon
<1>6. \A k \in 0..n : k \in T
  <2> HIDE DEF T
  <2> QED BY <1>5, StepByStep
<1>7. n \in 0..n
  OBVIOUS
<1>8. P(n)
  <2> HIDE DEF P
  <2> QED BY <1>6, <1>7
<1>9. RecipientLines(lines) = f[n].filtered
  BY <1>2, Zenon DEF RecipientLines, KnownOf
<1>10. f[n].filtered \in Seq(S)
  BY <1>2 DEF KnownIn
<1>11. \A line : Among(line, f[n].filtered) =>
         Among(line, lines) /\ ~IsReturnAddress(line) /\ ~IsLabel(line)
  BY <1>1, <1>8 DEF Among
<1>12. ToSet(f[n].filtered) \subseteq OwnOf(lines)
  <2>1. \A line : line \in ToSet(f[n].filtered) <=> Among(line, f[n].filtered)
    BY <1>10, AmongThem
  <2>2. \A line : line \in ToSet(lines) <=> Among(line, lines)
    BY AmongThem
  <2> QED BY <1>11, <2>1, <2>2 DEF OwnOf
<1>13. Clean(lines) => f[n].filtered = lines
  BY <1>1, <1>8, SubSeqFull
<1> QED BY <1>9, <1>10, <1>12, <1>13

(* The lines that an address has, from which all of it follows.            *)
AreLines(lines, S) ==
  /\ lines \in Seq(Seq(S)) /\ Len(lines) >= 1 /\ Clean(lines)
  /\ lines = <<<<>>>> \/ \A k \in 1..Len(lines) : lines[k] # <<>>

LEMMA LinesAre ==
  ASSUME NEW S, NEW address \in Seq(Seq(S))
  PROVE  AreLines(Lines(address), S)
<1>1. PICK written : written = WrittenLines(address)
  OBVIOUS
<1>2. written \in Seq(Seq(S)) /\ ToSet(written) \subseteq {line \in ToSet(address) : line # <<>>}
  <2>1. PICK some : some = {line \in ToSet(address) : line # <<>>}
    OBVIOUS
  <2>2. /\ Where(address, some) \in Seq(Seq(S))
        /\ ToSet(Where(address, some)) = ToSet(address) \cap some
    BY WhereItems
  <2> QED BY <1>1, <2>1, <2>2 DEF WrittenLines
<1>3. PICK lines : lines = RecipientLines(written)
  OBVIOUS
<1>4. lines \in Seq(Seq(S)) /\ ToSet(lines) \subseteq OwnOf(written)
  BY <1>2, <1>3, RecipientLinesAre
<1>5. Lines(address) = IF lines = <<>> THEN <<<<>>>> ELSE lines
  BY <1>1, <1>3 DEF Lines
<1>6. CASE lines = <<>>
  <2>1. Lines(address) = <<<<>>>>
    BY <1>5, <1>6
  <2>2. <<<<>>>> \in Seq(Seq(S)) /\ Len(<<<<>>>>) = 1 /\ <<<<>>>>[1] = <<>>
    OBVIOUS
  <2>3. Clean(<<<<>>>>)
    <3>1. ~IsReturnAddress(<<>>) /\ ~IsLabel(<<>>)
      <4>1. \A label : <<label>> # <<>>
        OBVIOUS
      <4> QED BY <4>1 DEF IsReturnAddress, IsLabel
    <3>2. \A k \in 1..1 : k = 1
      OBVIOUS
    <3> QED BY <2>2, <3>1, <3>2 DEF Clean
  <2> QED BY <2>1, <2>2, <2>3 DEF AreLines
<1>7. CASE lines # <<>>
  <2>1. PICK n \in Nat : n = Len(lines) /\ DOMAIN lines = 1..n
    BY <1>4, LenProperties
  <2>2. n >= 1
    BY <1>4, <1>7, <2>1, EmptySeq
  <2>3. ASSUME NEW k \in 1..n
        PROVE  lines[k] # <<>> /\ ~IsReturnAddress(lines[k]) /\ ~IsLabel(lines[k])
    <3>1. lines[k] \in ToSet(lines)
      BY <2>1 DEF ToSet
    <3> QED BY <1>2, <1>4, <3>1 DEF OwnOf
  <2> QED BY <1>4, <1>5, <1>7, <2>1, <2>2, <2>3 DEF AreLines, Clean
<1> QED BY <1>6, <1>7

LEMMA LinesOfNothing ==
  Lines(<<>>) = <<<<>>>> /\ ~has_non_recipient_address_line(<<>>)
<1>1. <<>> \in Seq(Seq({})) /\ Len(<<>>) = 0 /\ ToSet(<<>>) = {}
  BY EmptySeq DEF ToSet
<1>2. WrittenLines(<<>>) = <<>>
  <2>1. \A some : Where(<<>>, some) = <<>>
    <3>1. ASSUME NEW some PROVE Where(<<>>, some) = <<>>
      <4>1. \A k \in 1..Len(<<>>) : <<>>[k] \in some
        BY <1>1
      <4> QED BY <1>1, <4>1, WhereAll
    <3> QED BY <3>1
  <2> QED BY <2>1 DEF WrittenLines
<1>3. RecipientLines(<<>>) = <<>>
  <2>1. Clean(<<>>)
    BY <1>1 DEF Clean
  <2> QED BY <1>1, <2>1, RecipientLinesAre
<1> QED BY <1>1, <1>2, <1>3 DEF Lines, has_non_recipient_address_line

(* Lines that an address has are those of an address that is made of them. *)
LEMMA LinesOfLines ==
  ASSUME NEW S, NEW lines, AreLines(lines, S)
  PROVE  Lines(lines) = lines /\ ~has_non_recipient_address_line(lines)
<1>1. PICK n \in Nat : n = Len(lines) /\ DOMAIN lines = 1..n /\ n >= 1 /\ lines \in Seq(Seq(S))
  BY LenProperties DEF AreLines
<1>2. ~has_non_recipient_address_line(lines)
  BY <1>1 DEF has_non_recipient_address_line, ToSet, AreLines, Clean
<1>3. PICK some : some = {line \in ToSet(lines) : line # <<>>}
  OBVIOUS
<1>4. CASE lines = <<<<>>>>
  <2>1. ToSet(lines) = {<<>>}
    BY <1>4 DEF ToSet
  <2>2. Where(lines, some) \in Seq(Seq(S)) /\ ToSet(Where(lines, some)) = {}
    <3>1. /\ Where(lines, some) \in Seq(Seq(S))
          /\ ToSet(Where(lines, some)) = ToSet(lines) \cap some
      BY <1>1, WhereItems
    <3> QED BY <1>3, <2>1, <3>1
  <2>3. Where(lines, some) = <<>>
    BY <2>2, NoItems
  <2>4. WrittenLines(lines) = <<>> /\ WrittenLines(<<>>) = <<>>
    <3>1. WrittenLines(lines) = <<>>
      BY <1>3, <2>3 DEF WrittenLines
    <3>2. <<>> \in Seq(Seq(S)) /\ \A other, k : k \in 1..Len(<<>>) => <<>>[k] \in other
      BY EmptySeq
    <3>3. \A other : Where(<<>>, other) = <<>>
      BY <3>2, WhereAll
    <3> QED BY <3>1, <3>3 DEF WrittenLines
  <2>5. Lines(lines) = Lines(<<>>)
    BY <2>4 DEF Lines
  <2> QED BY <1>2, <1>4, <2>5, LinesOfNothing
<1>5. CASE \A k \in 1..Len(lines) : lines[k] # <<>>
  <2>1. \A k \in 1..Len(lines) : lines[k] \in some
    BY <1>1, <1>3, <1>5 DEF ToSet
  <2>2. WrittenLines(lines) = lines
    <3>1. Where(lines, some) = lines
      BY <1>1, <2>1, WhereAll
    <3> QED BY <1>3, <3>1 DEF WrittenLines
  <2>3. RecipientLines(lines) = lines
    BY <1>1, RecipientLinesAre DEF AreLines
  <2>4. lines # <<>>
    BY <1>1
  <2> QED BY <1>2, <2>2, <2>3, <2>4 DEF Lines
<1> QED BY <1>4, <1>5 DEF AreLines

(* What follows from an address's lines.                                   *)
LEMMA SameLines ==
  ASSUME NEW one, NEW other, Lines(one) = Lines(other)
  PROVE  /\ country(one) = country(other) /\ (international(one) <=> international(other))
         /\ postcode(one) = postcode(other) /\ city(one) = city(other)
         /\ (has_valid_local_address(one) <=> has_valid_local_address(other))
         /\ normalised_lines(one) = normalised_lines(other)
<1>1. last_line(one) = last_line(other)
  BY Zenon DEF last_line
<1>2. country(one) = country(other) /\ (international(one) <=> international(other))
  BY <1>1, Zenon DEF country, international
<1>3. postcode(one) = postcode(other)
  BY <1>2, Zenon DEF postcode
<1>4. city(one) = city(other)
  BY Zenon DEF city
<1>5. has_valid_local_address(one) <=> has_valid_local_address(other)
  BY <1>3, <1>4, Zenon DEF has_valid_local_address
<1>6. normalised_lines(one) = normalised_lines(other)
  BY <1>2, <1>3, <1>4, <1>5, Zenon DEF normalised_lines
<1> QED BY <1>2, <1>3, <1>4, <1>5, <1>6

LEMMA CodesAre ==
  ASSUME NEW S, NEW line \in Seq(S), HasCode(line)
  PROVE  CodeAt(line) \in 1..Len(line) /\ line[CodeAt(line)] \in Postcodes \cap S
<1>1. PICK n \in Nat : n = Len(line) /\ DOMAIN line = 1..n
  BY LenProperties
<1>2. CodesOf(line) \subseteq 1..n /\ CodesOf(line) # {}
  BY <1>1 DEF CodesOf, HasCode
<1>3. CodeAt(line) \in CodesOf(line)
  BY <1>2, LeastPlace DEF CodeAt
<1>4. CodeAt(line) \in 1..Len(line) /\ line[CodeAt(line)] \in Postcodes
  BY <1>1, <1>2, <1>3 DEF CodesOf
<1> QED BY <1>4, ElementOfSeq

(* The words of a line from one place to another are words of it.          *)
LEMMA PartOf ==
  ASSUME NEW S, NEW list \in Seq(S), NEW a \in 1..(Len(list) + 1), NEW b \in 0..Len(list)
  PROVE  /\ SubSeq(list, a, b) \in Seq(S)
         /\ Len(SubSeq(list, a, b)) = IF a <= b THEN b - a + 1 ELSE 0
         /\ \A k \in 1..(b - a + 1) : SubSeq(list, a, b)[k] = list[a + k - 1]
<1>1. Len(list) \in Nat
  BY LenProperties
<1>2. a \in Int /\ b \in Int /\ a..b \subseteq 1..Len(list)
  BY <1>1
<1>3. \A k \in a..b : list[k] \in S
  BY <1>2, ElementOfSeq
<1> QED BY <1>2, <1>3, SubSeqProperties

(* One of a list's items is taken out.                                     *)
LEMMA RemovedAt ==
  ASSUME NEW S, NEW list \in Seq(S), NEW i \in 1..Len(list)
  PROVE  /\ RemoveAt(list, i) \in Seq(S) /\ Len(RemoveAt(list, i)) = Len(list) - 1
         /\ \A k \in 1..(Len(list) - 1) :
              RemoveAt(list, i)[k] = IF k < i THEN list[k] ELSE list[k + 1]
         /\ ToSet(RemoveAt(list, i)) \subseteq ToSet(list)
<1>1. PICK n \in Nat : n = Len(list) /\ DOMAIN list = 1..n /\ i \in 1..n
  BY LenProperties
<1>2. PICK before, after : before = SubSeq(list, 1, i - 1) /\ after = SubSeq(list, i + 1, n)
  OBVIOUS
<1>3. before \in Seq(S) /\ Len(before) = i - 1 /\ \A k \in 1..(i - 1) : before[k] = list[k]
  <2>1. 1 \in 1..(Len(list) + 1) /\ i - 1 \in 0..Len(list)
    BY <1>1
  <2>2. /\ SubSeq(list, 1, i - 1) \in Seq(S)
        /\ Len(SubSeq(list, 1, i - 1)) = IF 1 <= i - 1 THEN i - 1 - 1 + 1 ELSE 0
        /\ \A k \in 1..(i - 1 - 1 + 1) : SubSeq(list, 1, i - 1)[k] = list[1 + k - 1]
    BY <2>1, PartOf
  <2> QED BY <1>1, <1>2, <2>2
<1>4. after \in Seq(S) /\ Len(after) = n - i /\ \A k \in 1..(n - i) : after[k] = list[i + k]
  <2>1. i + 1 \in 1..(Len(list) + 1) /\ n \in 0..Len(list)
    BY <1>1
  <2>2. /\ SubSeq(list, i + 1, n) \in Seq(S)
        /\ Len(SubSeq(list, i + 1, n)) = IF i + 1 <= n THEN n - (i + 1) + 1 ELSE 0
        /\ \A k \in 1..(n - (i + 1) + 1) : SubSeq(list, i + 1, n)[k] = list[i + 1 + k - 1]
    BY <2>1, PartOf
  <2>3. n - (i + 1) + 1 = n - i /\ \A k \in Int : i + 1 + k - 1 = i + k
    BY <1>1
  <2> QED BY <1>1, <1>2, <2>2, <2>3
<1>5. PICK rest : rest = before \o after
  OBVIOUS
<1>6. /\ rest \in Seq(S) /\ Len(rest) = Len(before) + Len(after)
      /\ \A k \in 1..(Len(before) + Len(after)) :
           rest[k] = IF k <= Len(before) THEN before[k] ELSE after[k - Len(before)]
  BY <1>3, <1>4, <1>5, ConcatProperties
<1>7. Len(rest) = n - 1 /\ RemoveAt(list, i) = rest
  <2>1. RemoveAt(list, i) = rest
    BY <1>1, <1>2, <1>5, Zenon DEF RemoveAt
  <2> QED BY <1>1, <1>3, <1>4, <1>6, <2>1
<1>8. ASSUME NEW k \in 1..(n - 1)
      PROVE  rest[k] = IF k < i THEN list[k] ELSE list[k + 1]
  <2>1. k \in 1..(Len(before) + Len(after))
    BY <1>1, <1>3, <1>4
  <2>2. CASE k < i
    BY <1>3, <1>6, <2>1, <2>2
  <2>3. CASE ~(k < i)
    <3>1. rest[k] = after[k - (i - 1)] /\ k - (i - 1) \in 1..(n - i)
      BY <1>1, <1>3, <1>6, <2>1, <2>3
    <3>2. i + (k - (i - 1)) = k + 1
      BY <1>1
    <3> QED BY <1>4, <2>3, <3>1, <3>2
  <2> QED BY <2>2, <2>3
<1>9. \A k \in 1..(n - 1) : rest[k] \in ToSet(list)
  <2>1. \A k \in 1..(n - 1) : k \in 1..n /\ k + 1 \in 1..n
    BY <1>1
  <2> QED BY <1>1, <1>8, <2>1 DEF ToSet
<1>10. DOMAIN rest = 1..(n - 1)
  BY <1>6, <1>7, LenProperties
<1>11. ToSet(rest) \subseteq ToSet(list)
  BY <1>9, <1>10 DEF ToSet
<1> QED BY <1>1, <1>6, <1>7, <1>8, <1>11

IsWithout(less, list, i, S) ==
  /\ less \in Seq(S) /\ Len(less) = Len(list) - 1
  /\ \A k \in 1..(Len(list) - 1) : less[k] = IF k < i THEN list[k] ELSE list[k + 1]

LEMMA IsWithoutOne ==
  ASSUME NEW S, NEW list \in Seq(S), NEW i \in 1..Len(list)
  PROVE  IsWithout(RemoveAt(list, i), list, i, S)
BY RemovedAt DEF IsWithout

(* The towns of lines.                                                     *)
FoundTown(lines, found, S) ==
  /\ found.town \in Seq(S) /\ IsTown(found.town)
  /\ found.next # 0 => found.next \in 1..Len(lines) /\ lines[found.next] = found.town

LEMMA TownAtIs ==
  ASSUME NEW S, NEW lines \in Seq(Seq(S)), NEW n \in PostcodeLines(lines)
  PROVE  TownAt(lines, n) = NoTown \/ FoundTown(lines, TownAt(lines, n), S)
<1>1. n \in 1..Len(lines) /\ HasCode(lines[n]) /\ Len(lines) \in Nat
  BY LenProperties DEF PostcodeLines
<1>2. PICK line \in Seq(S) : line = lines[n]
  BY <1>1, ElementOfSeq
<1>3. PICK c : c = CodeAt(line)
  OBVIOUS
<1>4. c \in 1..Len(line) /\ Len(line) \in Nat
  BY <1>1, <1>2, <1>3, CodesAre, LenProperties
<1>5. PICK before, after :
        before = SubSeq(line, 1, c - 1) /\ after = SubSeq(line, c + 1, Len(line))
  OBVIOUS
<1>6. before \in Seq(S) /\ after \in Seq(S)
  <2>1. /\ 1 \in 1..(Len(line) + 1) /\ c - 1 \in 0..Len(line)
        /\ c + 1 \in 1..(Len(line) + 1) /\ Len(line) \in 0..Len(line)
    BY <1>4
  <2>2. SubSeq(line, 1, c - 1) \in Seq(S)
    BY <2>1, PartOf
  <2>3. SubSeq(line, c + 1, Len(line)) \in Seq(S)
    BY <2>1, PartOf
  <2> QED BY <1>5, <2>2, <2>3
<1>7. TownAt(lines, n) =
        IF IsTown(before) THEN [town |-> before, next |-> 0]
        ELSE IF IsTown(after) THEN [town |-> after, next |-> 0]
        ELSE IF n < Len(lines) /\ IsTown(lines[n + 1])
             THEN [town |-> lines[n + 1], next |-> n + 1]
        ELSE NoTown
  BY <1>2, <1>3, <1>5, Zenon DEF TownAt
<1>8. CASE IsTown(before)
  BY <1>6, <1>7, <1>8 DEF FoundTown
<1>9. CASE ~IsTown(before) /\ IsTown(after)
  BY <1>6, <1>7, <1>9 DEF FoundTown
<1>10. CASE ~IsTown(before) /\ ~IsTown(after) /\ n < Len(lines) /\ IsTown(lines[n + 1])
  <2>1. n + 1 \in 1..Len(lines)
    BY <1>1, <1>10
  <2>2. lines[n + 1] \in Seq(S)
    BY <2>1, ElementOfSeq
  <2>3. TownAt(lines, n) = [town |-> lines[n + 1], next |-> n + 1]
    BY <1>7, <1>10
  <2> QED BY <1>10, <2>1, <2>2, <2>3 DEF FoundTown
<1> QED BY <1>7, <1>8, <1>9, <1>10

LEMMA TownIs ==
  ASSUME NEW S, NEW lines \in Seq(Seq(S))
  PROVE  Town(lines) = NoTown \/ FoundTown(lines, Town(lines), S)
<1>1. PICK towns : towns = {n \in PostcodeLines(lines) : TownAt(lines, n) # NoTown}
  OBVIOUS
<1>2. PICK m \in Nat : m = Len(lines) /\ DOMAIN lines = 1..m
  BY LenProperties
<1>3. CASE towns = {}
  BY <1>1, <1>3 DEF Town
<1>4. CASE towns # {}
  <2>1. towns \subseteq 1..m
    BY <1>1, <1>2 DEF PostcodeLines
  <2>2. PICK n : n = Min(towns)
    OBVIOUS
  <2>3. n \in towns
    BY <1>2, <1>4, <2>1, <2>2, LeastPlace
  <2>4. n \in PostcodeLines(lines)
    BY <1>1, <2>3
  <2>5. Town(lines) = TownAt(lines, n)
    BY <1>1, <1>4, <2>2, Zenon DEF Town
  <2> QED BY <2>4, <2>5, TownAtIs
<1> QED BY <1>3, <1>4

(* Names of countries are no towns, whichever they are.                    *)
IsPlainCountry(line) == IsCountry(line) /\ ~HasCode(line)

LEMMA SameTowns ==
  ASSUME NEW S, NEW one \in Seq(Seq(S)), NEW other \in Seq(Seq(S)), Len(one) = Len(other),
         \A k \in 1..Len(one) :
           one[k] = other[k] \/ (IsPlainCountry(one[k]) /\ IsPlainCountry(other[k]))
  PROVE  PostcodeLines(one) = PostcodeLines(other) /\ Town(one) = Town(other)
<1>1. PICK n \in Nat :
        n = Len(one) /\ n = Len(other) /\ DOMAIN one = 1..n /\ DOMAIN other = 1..n
  BY LenProperties
<1>2. PostcodeLines(one) = PostcodeLines(other)
  BY <1>1 DEF PostcodeLines, IsPlainCountry
<1>3. ASSUME NEW k \in PostcodeLines(one) PROVE TownAt(one, k) = TownAt(other, k)
  <2>1. k \in 1..n /\ HasCode(one[k])
    BY <1>1, <1>3 DEF PostcodeLines
  <2>2. one[k] = other[k]
    BY <1>1, <2>1 DEF IsPlainCountry
  <2>3. CASE k < n /\ one[k + 1] # other[k + 1]
    <3>1. k + 1 \in 1..n
      BY <2>1, <2>3
    <3>2. ~IsTown(one[k + 1]) /\ ~IsTown(other[k + 1])
      BY <1>1, <2>3, <3>1 DEF IsPlainCountry, IsTown
    <3> QED BY <2>2, <3>2, Zenon DEF TownAt
  <2>4. CASE ~(k < n)
    BY <1>1, <2>2, <2>4 DEF TownAt
  <2>5. CASE one[k + 1] = other[k + 1]
    BY <1>1, <2>2, <2>5 DEF TownAt
  <2> QED BY <2>3, <2>4, <2>5
<1>4. {k \in PostcodeLines(one) : TownAt(one, k) # NoTown}
        = {k \in PostcodeLines(other) : TownAt(other, k) # NoTown}
  BY <1>2, <1>3
<1>5. PICK towns : towns = {k \in PostcodeLines(one) : TownAt(one, k) # NoTown}
  OBVIOUS
<1>6. /\ Town(one) = IF towns = {} THEN NoTown ELSE TownAt(one, Min(towns))
      /\ Town(other) = IF towns = {} THEN NoTown ELSE TownAt(other, Min(towns))
  BY <1>4, <1>5, Zenon DEF Town
<1>7. CASE towns # {}
  <2>1. towns \subseteq 1..n
    BY <1>1, <1>5 DEF PostcodeLines
  <2>2. PICK m : m = Min(towns)
    OBVIOUS
  <2>3. m \in towns
    BY <1>7, <2>1, <2>2, LeastPlace
  <2>4. TownAt(one, m) = TownAt(other, m)
    BY <1>3, <1>5, <2>3
  <2>5. Town(one) = TownAt(one, m) /\ Town(other) = TownAt(other, m)
    BY <1>6, <1>7, <2>2, Zenon
  <2> QED BY <1>2, <2>4, <2>5
<1> QED BY <1>2, <1>6, <1>7

(* The lines that remain above that of the postcode.                       *)
Remains(line, lines) ==
  line \in ToSet(lines) /\ line # <<>> /\ ~HasCode(line) /\ line \notin {<<name>> : name \in LeftOut}

LEMMA WithoutTownAre ==
  ASSUME NEW S, NEW lines \in Seq(Seq(S))
  PROVE  WithoutTown(lines) \in Seq(Seq(S)) /\ ToSet(WithoutTown(lines)) \subseteq ToSet(lines)
<1>1. Town(lines) = NoTown \/ FoundTown(lines, Town(lines), S)
  BY TownIs
<1>2. CASE Town(lines).next = 0
  BY <1>2 DEF WithoutTown
<1>3. CASE Town(lines).next # 0
  <2>1. Town(lines).next \in 1..Len(lines)
    BY <1>1, <1>3 DEF FoundTown, NoTown
  <2>2. PICK i \in 1..Len(lines) : i = Town(lines).next
    BY <2>1
  <2>3. WithoutTown(lines) = RemoveAt(lines, i)
    BY <1>3, <2>2 DEF WithoutTown
  <2> QED BY <2>3, RemovedAt
<1> QED BY <1>2, <1>3

LEMMA RemainingAre ==
  ASSUME NEW S, NEW lines \in Seq(Seq(S))
  PROVE  /\ Remaining(lines) \in Seq(Seq(S))
         /\ \A line \in ToSet(Remaining(lines)) : Remains(line, lines)
<1>1. PICK others : others = WithoutTown(lines)
  OBVIOUS
<1>2. others \in Seq(Seq(S)) /\ ToSet(others) \subseteq ToSet(lines)
  BY <1>1, WithoutTownAre
<1>3. PICK some : some = {line \in ToSet(others) : line # <<>> /\ ~HasCode(line)
                                                 /\ line \notin {<<name>> : name \in LeftOut}}
  OBVIOUS
<1>4. Where(others, some) \in Seq(Seq(S)) /\ ToSet(Where(others, some)) = ToSet(others) \cap some
  BY <1>2, WhereItems
<1>5. Remaining(lines) = Where(others, some)
  BY <1>1, <1>3 DEF Remaining
<1> QED BY <1>2, <1>3, <1>4, <1>5 DEF Remains

(* The line that is made of a postcode and a town.                         *)
IsCodeLine(line, code, words) ==
  /\ line = <<code>> \o words /\ Head(line) = code /\ line # <<>>
  /\ HasCode(line) /\ CodeAt(line) = 1 /\ line[1] = code
  /\ SubSeq(line, 1, 0) = <<>> /\ SubSeq(line, 2, Len(line)) = words
  /\ words # <<>> => \A name : line # <<name>>
  /\ words = <<>> => line = <<code>>

LEMMA CodeLineIs ==
  ASSUME NEW S, NEW words \in Seq(S), NEW code \in Postcodes \cap S
  PROVE  <<code>> \o words \in Seq(S) /\ IsCodeLine(<<code>> \o words, code, words)
<1>1. PICK n \in Nat : n = Len(words)
  BY LenProperties
<1>2. PICK first : first = <<code>> /\ first \in Seq(S) /\ Len(first) = 1 /\ first[1] = code
  <2>1. <<code>> \in Seq(S) /\ Len(<<code>>) = 1 /\ <<code>>[1] = code
    OBVIOUS
  <2> QED BY <2>1, Zenon
<1>3. PICK line : line = first \o words
  OBVIOUS
<1>4. /\ line \in Seq(S) /\ Len(line) = 1 + n
      /\ \A k \in 1..(1 + n) : line[k] = IF k <= 1 THEN first[k] ELSE words[k - 1]
  BY <1>1, <1>2, <1>3, ConcatProperties
<1>5. line[1] = code /\ \A k \in 1..n : line[k + 1] = words[k]
  BY <1>1, <1>2, <1>4
<1>6. DOMAIN line = 1..(1 + n) /\ line # <<>>
  BY <1>1, <1>4, LenProperties
<1>7. 1 \in CodesOf(line) /\ CodesOf(line) \subseteq 1..(1 + n)
  BY <1>1, <1>5, <1>6 DEF CodesOf
<1>8. CodeAt(line) = 1 /\ HasCode(line)
  <2>1. CodesOf(line) # {}
    BY <1>7
  <2>2. 1 + n \in Nat
    BY <1>1
  <2>3. Min(CodesOf(line)) \in CodesOf(line) /\ \A m \in CodesOf(line) : Min(CodesOf(line)) <= m
    BY <1>7, <2>1, <2>2, LeastPlace
  <2>4. Min(CodesOf(line)) \in 1..(1 + n) /\ Min(CodesOf(line)) <= 1
    BY <1>7, <2>3
  <2>5. Min(CodesOf(line)) = 1
    BY <1>1, <2>4
  <2> QED BY <2>1, <2>5 DEF CodeAt, HasCode
<1>9. SubSeq(line, 1, 0) = <<>>
  BY SubSeqEmpty
<1>10. SubSeq(line, 2, Len(line)) = words
  <2>1. PICK rest : rest = SubSeq(line, 2, Len(line))
    OBVIOUS
  <2>2. 2 \in 1..(Len(line) + 1) /\ Len(line) \in 0..Len(line)
    BY <1>1, <1>4
  <2>3. /\ SubSeq(line, 2, Len(line)) \in Seq(S)
        /\ Len(SubSeq(line, 2, Len(line))) = IF 2 <= Len(line) THEN Len(line) - 2 + 1 ELSE 0
        /\ \A k \in 1..(Len(line) - 2 + 1) : SubSeq(line, 2, Len(line))[k] = line[2 + k - 1]
    BY <1>4, <2>2, PartOf
  <2>4. Len(rest) = n /\ \A k \in 1..n : rest[k] = line[k + 1]
    BY <1>1, <1>4, <2>1, <2>3
  <2> QED BY <1>1, <1>5, <2>1, <2>3, <2>4, SeqEqual
<1>11. words # <<>> => \A name : line # <<name>>
  <2>1. words # <<>> => n >= 1
    BY <1>1, EmptySeq
  <2>2. \A name : Len(<<name>>) = 1
    OBVIOUS
  <2> QED BY <1>1, <1>4, <2>1, <2>2
<1>12. words = <<>> => line = <<code>>
  BY <1>2, <1>3, ConcatEmptySeq
<1>13. Head(line) = code
  BY <1>5, <1>6
<1> QED BY <1>2, <1>3, <1>4, <1>5, <1>6, <1>8, <1>9, <1>10, <1>11, <1>12, <1>13 DEF IsCodeLine

LEMMA CodeLineIsNoOther ==
  ASSUME NEW S, NEW words \in Seq(S), NEW code \in Postcodes \cap S
  PROVE  LET line == <<code>> \o words IN
         /\ ~IsReturnAddress(line) /\ ~IsLabel(line)
         /\ line \notin {<<name>> : name \in DOMAIN CanonicalName}
<1>1. PICK line : line = <<code>> \o words /\ IsCodeLine(line, code, words)
  BY CodeLineIs
<1>2. line = <<code>> \/ \A name : line # <<name>>
  BY <1>1 DEF IsCodeLine
<1>3. code # Retouradres /\ code \notin Labels /\ code \notin DOMAIN CanonicalName
  BY WordsAssumption
<1>4. \A one, other : <<one>> = <<other>> => one = other
  OBVIOUS
<1>5. ~IsReturnAddress(line)
  BY <1>1, <1>3 DEF IsReturnAddress, IsCodeLine
<1>6. ~IsLabel(line)
  BY <1>2, <1>3, <1>4 DEF IsLabel
<1>7. line \notin {<<name>> : name \in DOMAIN CanonicalName}
  BY <1>2, <1>3, <1>4
<1> QED BY <1>1, <1>5, <1>6, <1>7

(* Lines without a postcode, and one with a postcode and perhaps a town    *)
(* beneath: what a local address comes to.                                 *)
IsRest(rest, S) ==
  /\ rest \in Seq(Seq(S)) /\ Clean(rest)
  /\ \A k \in 1..Len(rest) :
       /\ rest[k] # <<>> /\ ~HasCode(rest[k]) /\ rest[k] \notin {<<name>> : name \in LeftOut}

LEMMA FormedLines ==
  ASSUME NEW S, NEW rest, IsRest(rest, S), NEW code \in Postcodes \cap S,
         NEW words \in Seq(S), words # <<>> => IsTown(words)
  PROVE  LET lines == Append(rest, <<code>> \o words) IN
         /\ AreLines(lines, S) /\ Lines(lines) = lines
         /\ ~has_non_recipient_address_line(lines)
         /\ country(lines) = country_NL /\ ~international(lines)
         /\ postcode(lines) = <<code>>
         /\ Town(lines) = [town |-> words, next |-> 0]
         /\ Remaining(lines) = rest
         /\ words = <<>> \/ rest # <<>> => normalised_lines(lines) = lines
<1>1. PICK line \in Seq(S) : line = <<code>> \o words /\ IsCodeLine(line, code, words)
  BY CodeLineIs
<1>2. PICK lines : lines = Append(rest, line)
  OBVIOUS
<1>3. PICK n \in Nat : n = Len(rest) /\ rest \in Seq(Seq(S))
  BY LenProperties DEF IsRest
<1>4. /\ lines \in Seq(Seq(S)) /\ Len(lines) = n + 1 /\ lines[n + 1] = line
      /\ \A k \in 1..n : lines[k] = rest[k]
  BY <1>2, <1>3, Appended
<1>5. /\ ~IsReturnAddress(line) /\ ~IsLabel(line)
      /\ line \notin {<<name>> : name \in DOMAIN CanonicalName}
  BY <1>1, CodeLineIsNoOther
<1>6. 1..(n + 1) = 1..n \cup {n + 1} /\ DOMAIN lines = 1..(n + 1)
  BY <1>4, LenProperties
<1>7. AreLines(lines, S)
  <2>1. \A k \in 1..(n + 1) :
          lines[k] # <<>> /\ ~IsReturnAddress(lines[k]) /\ ~IsLabel(lines[k])
    <3>1. line # <<>>
      BY <1>1 DEF IsCodeLine
    <3>2. \A k \in 1..n : rest[k] # <<>> /\ ~IsReturnAddress(rest[k]) /\ ~IsLabel(rest[k])
      BY <1>3 DEF IsRest, Clean
    <3> QED BY <1>4, <1>5, <1>6, <3>1, <3>2
  <2>2. n + 1 >= 1
    OBVIOUS
  <2> QED BY <1>4, <2>1, <2>2 DEF AreLines, Clean
<1>8. Lines(lines) = lines /\ ~has_non_recipient_address_line(lines)
  BY <1>7, LinesOfLines
<1>9. last_line(lines) = line
  BY <1>4, <1>8 DEF last_line, Last
<1>10. country(lines) = country_NL /\ ~international(lines)
  BY <1>5, <1>9 DEF country, CountryOf, international
<1>11. PostcodeLines(lines) = {n + 1}
  <2>1. HasCode(line)
    BY <1>1 DEF IsCodeLine
  <2>2. \A k \in 1..n : ~HasCode(rest[k])
    BY <1>3 DEF IsRest
  <2>3. \A k \in 1..(n + 1) : HasCode(lines[k]) <=> k = n + 1
    <3>1. \A k \in 1..n : k # n + 1
      OBVIOUS
    <3> QED BY <1>4, <1>6, <2>1, <2>2, <3>1
  <2> QED BY <1>6, <2>3 DEF PostcodeLines
<1>12. Max({n + 1}) = n + 1 /\ Min({n + 1}) = n + 1
  <2>1. {n + 1} \subseteq 1..(n + 1) /\ {n + 1} # {} /\ n + 1 \in Nat
    OBVIOUS
  <2> QED BY <2>1, LastPlace, LeastPlace
<1>13. postcode(lines) = <<code>>
  <2>1. {n + 1} # {}
    OBVIOUS
  <2>2. CodeAt(line) = 1 /\ line[1] = code
    BY <1>1 DEF IsCodeLine
  <2> QED BY <1>4, <1>8, <1>10, <1>11, <1>12, <2>1, <2>2 DEF postcode
<1>14. Town(lines) = [town |-> words, next |-> 0]
  <2>1. TownAt(lines, n + 1) = [town |-> words, next |-> 0]
    <3>1. /\ CodeAt(line) = 1 /\ SubSeq(line, 1, 0) = <<>>
          /\ SubSeq(line, 2, Len(line)) = words
      BY <1>1 DEF IsCodeLine
    <3>2. SubSeq(line, 1, CodeAt(line) - 1) = <<>> /\ SubSeq(line, CodeAt(line) + 1, Len(line)) = words
      BY <3>1
    <3>3. ~IsTown(<<>>) /\ ~(n + 1 < Len(lines))
      BY <1>4 DEF IsTown
    <3>4. TownAt(lines, n + 1) =
            IF IsTown(<<>>) THEN [town |-> <<>>, next |-> 0]
            ELSE IF IsTown(words) THEN [town |-> words, next |-> 0]
            ELSE IF n + 1 < Len(lines) /\ IsTown(lines[n + 1 + 1])
                 THEN [town |-> lines[n + 1 + 1], next |-> n + 1 + 1]
            ELSE NoTown
      BY <1>4, <3>2, Zenon DEF TownAt
    <3> QED BY <3>3, <3>4 DEF NoTown, None
  <2>2. CASE words = <<>>
    <3>1. TownAt(lines, n + 1) = NoTown
      BY <2>1, <2>2 DEF NoTown, None
    <3>2. {k \in PostcodeLines(lines) : TownAt(lines, k) # NoTown} = {}
      BY <1>11, <3>1
    <3> QED BY <2>2, <3>2 DEF Town, NoTown, None
  <2>3. CASE words # <<>>
    <3>1. TownAt(lines, n + 1) # NoTown
      BY <2>1, <2>3 DEF NoTown, None
    <3>2. {k \in PostcodeLines(lines) : TownAt(lines, k) # NoTown} = {n + 1}
      BY <1>11, <3>1
    <3> QED BY <1>12, <2>1, <3>2 DEF Town
  <2> QED BY <2>2, <2>3
<1>15. Remaining(lines) = rest
  <2>1. WithoutTown(lines) = lines
    BY <1>14 DEF WithoutTown
  <2>2. PICK some : some = {other \in ToSet(lines) : other # <<>> /\ ~HasCode(other)
                                                 /\ other \notin {<<name>> : name \in LeftOut}}
    OBVIOUS
  <2>3. Remaining(lines) = Where(lines, some)
    BY <2>1, <2>2 DEF Remaining
  <2>4. line \notin some
    BY <1>1, <2>2 DEF IsCodeLine
  <2>5. \A k \in 1..n : rest[k] \in some
    <3>1. ASSUME NEW k \in 1..n PROVE rest[k] \in some
      <4>1. rest[k] \in ToSet(lines)
        <5>1. lines[k] = rest[k] /\ k \in DOMAIN lines
          BY <1>4, <1>6
        <5> QED BY <5>1 DEF ToSet
      <4> QED BY <1>3, <2>2, <4>1 DEF IsRest
    <3> QED BY <3>1
  <2>6. Where(Append(rest, line), some) = rest
    BY <1>3, <2>4, <2>5, WhereAllButLast
  <2> QED BY <1>2, <2>3, <2>6
<1>16. city(lines) = words
  BY <1>8, <1>14 DEF city
<1>17. ASSUME words = <<>> \/ rest # <<>> PROVE normalised_lines(lines) = lines
  <2>1. CASE words = <<>>
    <3>1. ~has_valid_local_address(lines)
      BY <1>16, <2>1 DEF has_valid_local_address, None
    <3> QED BY <1>8, <1>10, <3>1 DEF normalised_lines
  <2>2. CASE words # <<>>
    <3>1. has_valid_local_address(lines)
      BY <1>13, <1>16, <2>2 DEF has_valid_local_address, None
    <3>2. normalised_lines(lines)
            = Append(rest, <<code>> \o (IF rest = <<>> THEN <<>> ELSE words))
      BY <1>8, <1>10, <1>13, <1>15, <1>16, <3>1 DEF normalised_lines
    <3>3. rest # <<>>
      BY <1>17, <2>2
    <3> QED BY <1>1, <1>2, <3>2, <3>3
  <2> QED BY <2>1, <2>2
<1> QED BY <1>1, <1>2, <1>7, <1>8, <1>10, <1>13, <1>14, <1>15, <1>17

(* A normal form is a normal form, or names its country by a name that is  *)
(* still to change.                                                        *)
Again(normal, name) ==
  \/ normalised_lines(normal) = normal
  \/ /\ last_line(normal) = <<name>> /\ country(normal) # name
     /\ normalised_lines(normal) = InCountry(normal, country(normal))

(* The address that is read from a normal form.                            *)
Stays(lines, S) ==
  LET normal == normalised_lines(lines) IN
  /\ AreLines(normal, S) /\ Lines(normal) = normal
  /\ Again(normal, country(lines))
  /\ normalised_lines(normalised_lines(normal)) = normalised_lines(normal)
  /\ Len(normalised_lines(normal)) = Len(normal)
  /\ ~has_non_recipient_address_line(normal)
  /\ country(normal) = CountryOf(<<country(lines)>>) /\ CountryOf(<<country(normal)>>) = country(normal)
  /\ (international(normal) <=> international(lines))
  /\ (has_invalid_characters(normal) <=> has_invalid_characters(lines))
  /\ has_valid_local_address(normal) => has_valid_local_address(lines)
  /\ international(lines) \/ Len(normal) # 1 =>
       postcode(normal) = postcode(lines) /\ city(normal) = city(lines)
  /\ international(lines) => IsCountry(last_line(normal))

LEMMA PlainCountries ==
  ASSUME NEW line, line \in {<<name>> : name \in DOMAIN CanonicalName}
  PROVE  IsPlainCountry(line)
<1>1. PICK name \in DOMAIN CanonicalName : line = <<name>>
  OBVIOUS
<1>2. name \notin Postcodes
  BY WordsAssumption
<1>3. DOMAIN line = {1} /\ line[1] = name
  BY <1>1
<1>4. CodesOf(line) = {}
  BY <1>2, <1>3 DEF CodesOf
<1>5. IsCountry(line)
  BY DEF IsCountry
<1> QED BY <1>4, <1>5 DEF IsPlainCountry, HasCode

LEMMA CountriesAre ==
  /\ CountryOf(<<country_NL>>) = country_NL
  /\ \A name \in DOMAIN CanonicalName :
       CountryOf(<<name>>) = CanonicalName[name] /\ CanonicalName[name] \in Range(CanonicalName)
  /\ \A line : \/ CountryOf(line) = country_NL
               \/ /\ line \in {<<name>> : name \in DOMAIN CanonicalName}
                  /\ CountryOf(line) \in Range(CanonicalName)
  /\ country_NL \notin Range(CanonicalName)
  /\ \A name \in Range(CanonicalName) : CountryOf(<<CountryOf(<<name>>)>>) = CountryOf(<<name>>)
<1>1. \A one, other : <<one>> = <<other>> => one = other
  OBVIOUS
<1>2. \A name : Head(<<name>>) = name
  OBVIOUS
<1>3. \A name \in DOMAIN CanonicalName : CanonicalName[name] \in Range(CanonicalName)
  BY DEF Range
<1>4. country_NL \notin DOMAIN CanonicalName
  BY WordsAssumption DEF country_NL
<1>5. CountryOf(<<country_NL>>) = country_NL
  BY <1>1, <1>4, Zenon DEF CountryOf
<1>6. \A name \in DOMAIN CanonicalName : CountryOf(<<name>>) = CanonicalName[name]
  BY <1>2, Zenon DEF CountryOf
<1>7. ASSUME NEW line, line \in {<<name>> : name \in DOMAIN CanonicalName}
      PROVE  CountryOf(line) \in Range(CanonicalName)
  <2>1. PICK name \in DOMAIN CanonicalName : line = <<name>>
    BY <1>7
  <2> QED BY <1>3, <1>6, <2>1
<1>8. ASSUME NEW line, line \notin {<<name>> : name \in DOMAIN CanonicalName}
      PROVE  CountryOf(line) = country_NL
  BY <1>8, Zenon DEF CountryOf
<1>9. /\ country_NL \notin Range(CanonicalName)
      /\ \A name \in Range(CanonicalName) : CountryOf(<<CountryOf(<<name>>)>>) = CountryOf(<<name>>)
  <2>1. \A name \in Range(CanonicalName) :
          name \in DOMAIN CanonicalName /\ CanonicalName[CanonicalName[name]] = CanonicalName[name]
    BY WordsAssumption
  <2>2. ASSUME NEW name \in Range(CanonicalName)
        PROVE  CountryOf(<<CountryOf(<<name>>)>>) = CountryOf(<<name>>)
    <3>1. CountryOf(<<name>>) = CanonicalName[name] /\ CanonicalName[name] \in DOMAIN CanonicalName
      BY <1>3, <1>6, <2>1
    <3>2. CountryOf(<<CanonicalName[name]>>) = CanonicalName[CanonicalName[name]]
      BY <1>6, <3>1
    <3> QED BY <2>1, <3>1, <3>2
  <2> QED BY <1>4, <2>1, <2>2
<1> QED BY <1>3, <1>5, <1>6, <1>7, <1>8, <1>9, Zenon

(* Lines whose last is made a canonical name.                              *)
IsNamed(named, lines, name, S) ==
  /\ AreLines(named, S) /\ Len(named) = Len(lines) /\ Lines(named) = named
  /\ ~has_non_recipient_address_line(named)
  /\ last_line(named) = <<name>> /\ IsCountry(last_line(named))
  /\ country(named) = CountryOf(<<name>>) /\ international(named)
  /\ normalised_lines(named) = InCountry(lines, CountryOf(<<name>>))
  /\ InCountry(named, name) = named
  /\ InCountry(named, CountryOf(<<name>>)) = InCountry(lines, CountryOf(<<name>>))
  /\ postcode(named) = None /\ ~has_valid_local_address(named)
  /\ city(named) = city(lines)

LEMMA LinesInCountry ==
  ASSUME NEW S, NEW lines \in Seq(Seq(S)), Len(lines) >= 1, NEW name \in S
  PROVE  LET named == InCountry(lines, name) IN
         /\ named \in Seq(Seq(S)) /\ Len(named) = Len(lines) /\ <<name>> \in Seq(S)
         /\ \A k \in 1..Len(lines) : named[k] = IF k = Len(lines) THEN <<name>> ELSE lines[k]
         /\ \A other \in S : InCountry(named, other) = InCountry(lines, other)
<1>1. PICK n \in Nat : n = Len(lines) /\ DOMAIN lines = 1..n /\ n >= 1
  BY LenProperties
<1>2. n \in 1..Len(lines)
  BY <1>1
<1>3. ASSUME NEW other \in S
      PROVE  \E last \in Seq(S) : last = <<other>>
  <2>1. <<other>> \in Seq(S)
    OBVIOUS
  <2> QED BY <2>1, Zenon
<1>4. PICK last \in Seq(S) : last = <<name>>
  BY <1>3
<1>5. PICK named : named = [lines EXCEPT ![n] = last]
  OBVIOUS
<1>6. InCountry(lines, name) = named
  BY <1>1, <1>4, <1>5 DEF InCountry
<1>7. /\ named \in Seq(Seq(S)) /\ Len(named) = n
      /\ \A k \in 1..n : named[k] = IF k = n THEN last ELSE lines[k]
  BY <1>1, <1>2, <1>5, ExceptSeq
<1>8. ASSUME NEW other \in S PROVE InCountry(named, other) = InCountry(lines, other)
  <2>1. PICK new \in Seq(S) : new = <<other>>
    BY <1>3
  <2>2. InCountry(named, other) = [named EXCEPT ![n] = new]
    BY <1>7, <2>1 DEF InCountry
  <2>3. InCountry(lines, other) = [lines EXCEPT ![n] = new]
    BY <1>1, <2>1 DEF InCountry
  <2>4. [named EXCEPT ![n] = new] = [lines EXCEPT ![n] = new]
    <3>1. DOMAIN named = 1..n /\ DOMAIN lines = 1..n
      BY <1>1, <1>7, LenProperties
    <3> QED BY <1>1, <1>5, <3>1
  <2> QED BY <2>2, <2>3, <2>4
<1> QED BY <1>1, <1>4, <1>6, <1>7, <1>8

LEMMA NamedLines ==
  ASSUME NEW S, Range(CanonicalName) \subseteq S, NEW lines, AreLines(lines, S),
         lines[Len(lines)] \in {<<name>> : name \in DOMAIN CanonicalName},
         NEW name \in Range(CanonicalName)
  PROVE  IsNamed(InCountry(lines, name), lines, name, S)
<1>1. PICK n \in Nat :
        n = Len(lines) /\ DOMAIN lines = 1..n /\ n >= 1 /\ lines \in Seq(Seq(S))
  BY LenProperties DEF AreLines
<1>2. PICK named : named = InCountry(lines, name)
  OBVIOUS
<1>3. PICK last \in Seq(S) : last = <<name>>
  <2>1. <<name>> \in Seq(S)
    OBVIOUS
  <2> QED BY <2>1, Zenon
<1>4. /\ named \in Seq(Seq(S)) /\ Len(named) = n
      /\ \A k \in 1..n : named[k] = IF k = n THEN last ELSE lines[k]
      /\ \A other \in S : InCountry(named, other) = InCountry(lines, other)
  <2>1. name \in S
    OBVIOUS
  <2> QED BY <1>1, <1>2, <1>3, <2>1, LinesInCountry
<1>5. /\ name \in DOMAIN CanonicalName /\ name # Retouradres /\ name \notin Labels
      /\ CountryOf(<<name>>) \in Range(CanonicalName)
  <2>1. name \in DOMAIN CanonicalName /\ name # Retouradres /\ name \notin Labels
    BY WordsAssumption
  <2> QED BY <2>1, CountriesAre
<1>6. ~IsReturnAddress(last) /\ ~IsLabel(last) /\ last # <<>>
  <2>1. last # <<>> /\ Head(last) = name
    BY <1>3
  <2>2. \A one, other : <<one>> = <<other>> => one = other
    OBVIOUS
  <2> QED BY <1>3, <1>5, <2>1, <2>2 DEF IsReturnAddress, IsLabel
<1>7. \A k \in 1..n : lines[k] # <<>>
  <2>1. lines # <<<<>>>>
    <3>1. ASSUME lines = <<<<>>>> PROVE FALSE
      <4>1. n = 1 /\ lines[n] = <<>>
        BY <1>1, <3>1
      <4>2. \A word : <<word>> # <<>>
        OBVIOUS
      <4> QED BY <1>1, <4>1, <4>2
    <3> QED BY <3>1
  <2> QED BY <1>1, <2>1 DEF AreLines
<1>8. AreLines(named, S)
  <2>1. \A k \in 1..n :
          named[k] # <<>> /\ ~IsReturnAddress(named[k]) /\ ~IsLabel(named[k])
    BY <1>1, <1>4, <1>6, <1>7 DEF AreLines, Clean
  <2> QED BY <1>1, <1>4, <2>1 DEF AreLines, Clean
<1>9. Lines(named) = named /\ ~has_non_recipient_address_line(named)
  BY <1>8, LinesOfLines
<1>10. last_line(named) = last /\ n \in 1..n
  <2>1. n \in 1..n
    BY <1>1
  <2>2. named[n] = last
    BY <1>4, <2>1
  <2> QED BY <1>4, <1>9, <2>1, <2>2 DEF last_line, Last
<1>11. country(named) = CountryOf(<<name>>) /\ international(named)
  <2>1. country(named) = CountryOf(<<name>>)
    BY <1>3, <1>10 DEF country
  <2> QED BY <1>5, <2>1, CountriesAre DEF international
<1>12. InCountry(named, name) = named
  <2>1. InCountry(named, name) = [named EXCEPT ![n] = last]
    BY <1>3, <1>4 DEF InCountry
  <2>2. n \in 1..Len(named) /\ named[n] = last
    BY <1>4, <1>10
  <2>3. DOMAIN named = 1..n /\ named \in [1..n -> Seq(S)]
    BY <1>4, LenProperties
  <2> QED BY <1>4, <2>1, <2>2, <2>3
<1>13. InCountry(named, CountryOf(<<name>>)) = InCountry(lines, CountryOf(<<name>>))
  BY <1>4, <1>5
<1>14. normalised_lines(named) = InCountry(lines, CountryOf(<<name>>))
  BY <1>9, <1>11, <1>13, Zenon DEF normalised_lines
<1>15. postcode(named) = None /\ ~has_valid_local_address(named)
  BY <1>11 DEF postcode, has_valid_local_address
<1>16. IsCountry(last_line(named))
  BY <1>3, <1>5, <1>10 DEF IsCountry
<1>17. city(named) = city(lines)
  <2>1. IsPlainCountry(last)
    BY <1>3, <1>5, PlainCountries
  <2>2. IsPlainCountry(lines[n])
    BY <1>1, PlainCountries
  <2>3. \A k \in 1..n : named[k] = lines[k] \/ (IsPlainCountry(named[k]) /\ IsPlainCountry(lines[k]))
    BY <1>4, <2>1, <2>2
  <2>4. Town(named) = Town(lines)
    BY <1>1, <1>4, <2>3, SameTowns
  <2>5. Lines(lines) = lines
    BY LinesOfLines
  <2> QED BY <1>9, <2>4, <2>5 DEF city
<1>18. Len(named) = Len(lines) /\ last_line(named) = <<name>>
  BY <1>1, <1>3, <1>4, <1>10
<1> QED BY <1>2, <1>8, <1>9, <1>11, <1>12, <1>13, <1>14, <1>15, <1>16, <1>17, <1>18, Zenon DEF IsNamed

(* No name of a country begins with an invalid character.                  *)
BeginsInvalidly(line) == line # <<>> /\ Head(line) \in InvalidStarts

LEMMA InvalidInCountry ==
  ASSUME NEW S, Range(CanonicalName) \subseteq S, NEW lines \in Seq(Seq(S)), Len(lines) >= 1,
         NEW name \in Range(CanonicalName)
  PROVE  (\E line \in ToSet(InCountry(lines, name)) : BeginsInvalidly(line))
           <=> (\E k \in 1..Len(lines) : k # Len(lines) /\ BeginsInvalidly(lines[k]))
<1>1. PICK named : named = InCountry(lines, name)
  OBVIOUS
<1>2. /\ named \in Seq(Seq(S)) /\ Len(named) = Len(lines)
      /\ \A k \in 1..Len(lines) : named[k] = IF k = Len(lines) THEN <<name>> ELSE lines[k]
  BY <1>1, LinesInCountry
<1>3. ~BeginsInvalidly(<<name>>)
  <2>1. name \notin InvalidStarts
    BY WordsAssumption
  <2>2. Head(<<name>>) = name
    OBVIOUS
  <2> QED BY <2>1, <2>2 DEF BeginsInvalidly
<1>4. DOMAIN named = 1..Len(lines)
  BY <1>2, LenProperties
<1>5. ToSet(named) = {named[k] : k \in 1..Len(lines)}
  BY <1>4 DEF ToSet
<1>6. ASSUME NEW k \in 1..Len(lines)
      PROVE  BeginsInvalidly(named[k]) <=> k # Len(lines) /\ BeginsInvalidly(lines[k])
  <2>1. CASE k = Len(lines)
    <3>1. named[k] = <<name>>
      BY <1>2, <2>1
    <3> QED BY <1>3, <2>1, <3>1
  <2>2. CASE k # Len(lines)
    <3>1. named[k] = lines[k]
      BY <1>2, <2>2
    <3> QED BY <2>2, <3>1
  <2> QED BY <2>1, <2>2
<1>7. (\E line \in ToSet(named) : BeginsInvalidly(line))
        <=> (\E k \in 1..Len(lines) : BeginsInvalidly(named[k]))
  BY <1>5
<1>8. (\E k \in 1..Len(lines) : BeginsInvalidly(named[k]))
        <=> (\E k \in 1..Len(lines) : k # Len(lines) /\ BeginsInvalidly(lines[k]))
  BY <1>6
<1> QED BY <1>1, <1>7, <1>8

LEMMA AbroadStays ==
  ASSUME NEW S, Range(CanonicalName) \subseteq S, NEW lines, AreLines(lines, S),
         international(lines)
  PROVE  Stays(lines, S)
<1>1. PICK n \in Nat :
        n = Len(lines) /\ DOMAIN lines = 1..n /\ n >= 1 /\ lines \in Seq(Seq(S))
  BY LenProperties DEF AreLines
<1>2. Lines(lines) = lines
  BY LinesOfLines
<1>3. last_line(lines) = lines[n]
  BY <1>1, <1>2 DEF last_line, Last
<1>4. PICK name : name = country(lines)
  OBVIOUS
<1>5. name \in Range(CanonicalName) /\ lines[n] \in {<<known>> : known \in DOMAIN CanonicalName}
  BY <1>3, <1>4, CountriesAre DEF international, country
<1>6. PICK new : new = CountryOf(<<name>>)
  OBVIOUS
<1>7. new \in Range(CanonicalName) /\ CountryOf(<<new>>) = new
  <2>1. name \in DOMAIN CanonicalName
    BY <1>5, WordsAssumption
  <2> QED BY <1>5, <1>6, <2>1, CountriesAre
<1>8. PICK normal : normal = InCountry(lines, name)
  OBVIOUS
<1>9. PICK second : second = InCountry(lines, new)
  OBVIOUS
<1>10. IsNamed(normal, lines, name, S) /\ IsNamed(second, lines, new, S)
  BY <1>1, <1>5, <1>7, <1>8, <1>9, NamedLines
<1>11. normalised_lines(lines) = normal
  BY <1>2, <1>4, <1>8, Zenon DEF normalised_lines
<1>12. normalised_lines(normal) = second
  BY <1>6, <1>9, <1>10 DEF IsNamed
<1>13. normalised_lines(second) = second
  BY <1>7, <1>9, <1>10 DEF IsNamed
<1>14. Again(normal, name)
  <2>1. CASE new = name
    BY <1>8, <1>9, <1>12, <2>1 DEF Again
  <2>2. CASE new # name
    <3>1. last_line(normal) = <<name>> /\ country(normal) = new
      BY <1>6, <1>10 DEF IsNamed
    <3>2. InCountry(normal, new) = second
      BY <1>6, <1>9, <1>10 DEF IsNamed
    <3> QED BY <1>12, <2>2, <3>1, <3>2 DEF Again
  <2> QED BY <2>1, <2>2
<1>15. has_invalid_characters(normal) <=> has_invalid_characters(lines)
  <2>1. has_invalid_characters(normal) <=> \E line \in ToSet(second) : BeginsInvalidly(line)
    BY <1>12 DEF has_invalid_characters, BeginsInvalidly
  <2>2. has_invalid_characters(lines) <=> \E line \in ToSet(normal) : BeginsInvalidly(line)
    BY <1>11 DEF has_invalid_characters, BeginsInvalidly
  <2>3. \A known \in Range(CanonicalName) :
          (\E line \in ToSet(InCountry(lines, known)) : BeginsInvalidly(line))
            <=> (\E k \in 1..Len(lines) : k # Len(lines) /\ BeginsInvalidly(lines[k]))
    BY <1>1, InvalidInCountry
  <2> QED BY <1>5, <1>7, <1>8, <1>9, <2>1, <2>2, <2>3
<1>16. postcode(lines) = None
  BY DEF postcode
<1>17. /\ AreLines(normal, S) /\ Lines(normal) = normal /\ Len(normal) = Len(lines)
       /\ ~has_non_recipient_address_line(normal)
       /\ country(normal) = new /\ international(normal) /\ IsCountry(last_line(normal))
       /\ postcode(normal) = None /\ ~has_valid_local_address(normal) /\ city(normal) = city(lines)
       /\ Len(second) = Len(lines)
  BY <1>6, <1>10, Zenon DEF IsNamed
<1> QED BY <1>4, <1>6, <1>7, <1>11, <1>12, <1>13, <1>14, <1>15, <1>16, <1>17, Zenon DEF Stays

LEMMA UnplacedStays ==
  ASSUME NEW S, NEW lines, AreLines(lines, S), ~international(lines),
         ~has_valid_local_address(lines)
  PROVE  Stays(lines, S)
<1>1. Lines(lines) = lines /\ ~has_non_recipient_address_line(lines)
  BY LinesOfLines
<1>2. normalised_lines(lines) = lines
  BY <1>1 DEF normalised_lines
<1>3. country(lines) = country_NL
  BY DEF international
<1> QED BY <1>1, <1>2, <1>3, CountriesAre, Zenon DEF Stays, Again

LEMMA HomeStays ==
  ASSUME NEW S, NEW lines, AreLines(lines, S), ~international(lines),
         has_valid_local_address(lines)
  PROVE  Stays(lines, S)
<1>1. PICK n \in Nat :
        n = Len(lines) /\ DOMAIN lines = 1..n /\ n >= 1 /\ lines \in Seq(Seq(S))
  BY LenProperties DEF AreLines
<1>2. Lines(lines) = lines
  BY LinesOfLines
<1>3. postcode(lines) # None /\ city(lines) # None
  BY DEF has_valid_local_address
<1>4. PICK code \in Postcodes \cap S : postcode(lines) = <<code>>
  <2>1. PostcodeLines(lines) # {}
    BY <1>2, <1>3 DEF postcode
  <2>2. PostcodeLines(lines) \subseteq 1..n
    BY <1>1 DEF PostcodeLines
  <2>3. PICK m : m = Max(PostcodeLines(lines))
    OBVIOUS
  <2>4. m \in PostcodeLines(lines)
    BY <2>1, <2>2, <2>3, LastPlace
  <2>5. PICK line \in Seq(S) : line = lines[m] /\ HasCode(line)
    <3>1. m \in 1..Len(lines) /\ HasCode(lines[m])
      BY <1>1, <2>4 DEF PostcodeLines
    <3>2. lines[m] \in Seq(S)
      BY <1>1, <3>1, ElementOfSeq
    <3> QED BY <3>1, <3>2
  <2>6. line[CodeAt(line)] \in Postcodes \cap S
    BY <2>5, CodesAre
  <2>7. postcode(lines) = <<line[CodeAt(line)]>>
    BY <1>2, <2>1, <2>3, <2>5 DEF postcode
  <2> QED BY <2>6, <2>7
<1>5. PICK words \in Seq(S) : words = city(lines) /\ IsTown(words) /\ words # <<>>
  <2>1. Town(lines) = NoTown \/ FoundTown(lines, Town(lines), S)
    BY <1>1, TownIs
  <2>2. Town(lines) # NoTown
    BY <1>2, <1>3 DEF city, NoTown
  <2> QED BY <1>2, <1>3, <2>1, <2>2 DEF FoundTown, city, None
<1>6. PICK rest : rest = Remaining(lines)
  OBVIOUS
<1>7. IsRest(rest, S)
  <2>1. rest \in Seq(Seq(S)) /\ \A line \in ToSet(rest) : Remains(line, lines)
    BY <1>1, <1>6, RemainingAre
  <2>2. \A k \in 1..Len(rest) : rest[k] \in ToSet(rest)
    BY <2>1, ElementsOf
  <2>3. \A line \in ToSet(lines) : ~IsReturnAddress(line) /\ ~IsLabel(line)
    BY <1>1 DEF AreLines, Clean, ToSet
  <2> QED BY <2>1, <2>2, <2>3 DEF IsRest, Clean, Remains
<1>8. PICK town \in Seq(S) : town = IF rest = <<>> THEN <<>> ELSE words
  <2>1. <<>> \in Seq(S)
    BY EmptySeq
  <2> QED BY <2>1
<1>9. PICK normal : normal = Append(rest, <<code>> \o town)
  OBVIOUS
<1>10. normalised_lines(lines) = normal
  BY <1>2, <1>4, <1>5, <1>6, <1>8, <1>9 DEF normalised_lines
<1>11. town # <<>> => IsTown(town)
  BY <1>5, <1>8
<1>12. /\ AreLines(normal, S) /\ Lines(normal) = normal
       /\ ~has_non_recipient_address_line(normal)
       /\ country(normal) = country_NL /\ ~international(normal)
       /\ postcode(normal) = <<code>>
       /\ Town(normal) = [town |-> town, next |-> 0]
       /\ town = <<>> \/ rest # <<>> => normalised_lines(normal) = normal
  BY <1>7, <1>9, <1>11, FormedLines, ZenonT(30)
<1>13. normalised_lines(normal) = normal
  BY <1>8, <1>12
<1>14. country(lines) = country_NL
  BY DEF international
<1>15. Len(normal) # 1 => postcode(normal) = postcode(lines) /\ city(normal) = city(lines)
  <2>1. CASE rest = <<>>
    BY <1>9, <2>1
  <2>2. CASE rest # <<>>
    BY <1>4, <1>5, <1>8, <1>12, <2>2 DEF city
  <2> QED BY <2>1, <2>2
<1>16. has_invalid_characters(normal) <=> has_invalid_characters(lines)
  BY <1>10, <1>13, Zenon DEF has_invalid_characters
<1> QED BY <1>10, <1>12, <1>13, <1>14, <1>15, <1>16, CountriesAre, Zenon DEF Stays, Again

LEMMA NormalFormStays ==
  ASSUME NEW S, Range(CanonicalName) \subseteq S, NEW lines, AreLines(lines, S)
  PROVE  Stays(lines, S)
BY AbroadStays, UnplacedStays, HomeStays

(* What is stored of an address, and read from it.                         *)
LEMMA StoredLines ==
  ASSUME NEW S, NEW address, NEW normal, normal = normalised_lines(address),
         AreLines(normal, S), Lines(normal) = normal, Len(normal) <= MAX_LINES
  PROVE  /\ as_personalisation(address) = normal
         /\ from_personalisation(normal) \in {normal, <<>>}
         /\ Lines(from_personalisation(normal)) = normal
         /\ ~has_non_recipient_address_line(from_personalisation(normal))
<1>1. PICK n \in Nat :
        n = Len(normal) /\ DOMAIN normal = 1..n /\ n >= 1 /\ normal \in Seq(Seq(S))
  BY LenProperties DEF AreLines
<1>2. as_personalisation(address) = normal
  <2>1. Min({MAX_LINES - 1, n - 1}) = n - 1
    <3>1. MAX_LINES \in Nat /\ n <= MAX_LINES
      BY <1>1, AddressAssumption
    <3>2. MAX_LINES - 1 \in Int /\ n - 1 \in Int /\ n - 1 <= MAX_LINES - 1
      BY <3>1
    <3> QED BY <3>2, MinOfTwo
  <2>2. as_personalisation(address) = SubSeq(normal, 1, n - 1) \o <<normal[n]>>
    BY <1>1, <2>1 DEF as_personalisation, Last
  <2>3. SubSeq(normal, 1, n) = SubSeq(normal, 1, n - 1) \o <<normal[n]>>
    <3>1. 1 \in 1..Len(normal) /\ n \in 1..Len(normal)
      BY <1>1
    <3> QED BY <1>1, <3>1, SubSeqRecursiveSecond
  <2> QED BY <1>1, <2>2, <2>3, SubSeqFull
<1>3. ~has_non_recipient_address_line(normal)
  BY LinesOfLines
<1>4. PICK some : some = {line \in ToSet(normal) : line # <<>>}
  OBVIOUS
<1>5. from_personalisation(normal) = Where(normal, some)
  BY <1>4 DEF from_personalisation, WrittenLines
<1>6. CASE \A k \in 1..n : normal[k] # <<>>
  <2>1. \A k \in 1..Len(normal) : normal[k] \in some
    BY <1>1, <1>4, <1>6 DEF ToSet
  <2>2. Where(normal, some) = normal
    BY <1>1, <2>1, WhereAll
  <2> QED BY <1>2, <1>3, <1>5, <2>2
<1>7. CASE normal = <<<<>>>>
  <2>1. ToSet(normal) = {<<>>}
    BY <1>7 DEF ToSet
  <2>2. Where(normal, some) \in Seq(Seq(S)) /\ ToSet(Where(normal, some)) = {}
    <3>1. /\ Where(normal, some) \in Seq(Seq(S))
          /\ ToSet(Where(normal, some)) = ToSet(normal) \cap some
      BY <1>1, WhereItems
    <3> QED BY <1>4, <2>1, <3>1
  <2>3. Where(normal, some) = <<>>
    BY <2>2, NoItems
  <2>4. Lines(<<>>) = <<<<>>>> /\ ~has_non_recipient_address_line(<<>>)
    BY LinesOfNothing
  <2> QED BY <1>2, <1>5, <1>7, <2>3, <2>4
<1> QED BY <1>1, <1>6, <1>7 DEF AreLines

-----------------------------------------------------------------------------
(* What an address is when it is stored and read again: its inductive      *)
(* invariant.                                                              *)
AllWords ==
  Range(CanonicalName) \cup UNION {UNION {ToSet(line) : line \in ToSet(address)} : address \in Addresses}

AddressInv ==
  /\ given \in Seq(Seq(AllWords))
  /\ stored \in BOOLEAN
  /\ ~stored => raw = given
  /\ stored /\ line_count(given) <= MAX_LINES =>
       /\ Lines(raw) \in {normalised_lines(given), normalised_lines(normalised_lines(given))}
       /\ ~has_non_recipient_address_line(raw)

LEMMA AddressesAreLines == Addresses \subseteq Seq(Seq(AllWords))
<1> SUFFICES ASSUME NEW address \in Addresses PROVE address \in Seq(Seq(AllWords))
  OBVIOUS
<1>1. address \in Seq(ToSet(address))
  BY LinesAssumption
<1>2. ASSUME NEW line \in ToSet(address) PROVE line \in Seq(AllWords)
  <2>1. line \in Seq(ToSet(line))
    BY LinesAssumption
  <2>2. ToSet(line) \subseteq AllWords
    BY DEF AllWords
  <2> QED BY <2>1, <2>2, SeqMonotonic
<1>3. ToSet(address) \subseteq Seq(AllWords)
  BY <1>2
<1> QED BY <1>1, <1>3, SeqMonotonic

(* A normal form is that of the lines, and stays.                          *)
FormOf(address, S) ==
  LET normal == normalised_lines(address) IN
  /\ AreLines(normal, S) /\ Lines(normal) = normal
  /\ Again(normal, country(address))
  /\ normalised_lines(normalised_lines(normal)) = normalised_lines(normal)
  /\ Len(normalised_lines(normal)) = Len(normal)
  /\ ~has_non_recipient_address_line(normal)
  /\ country(normal) = CountryOf(<<country(address)>>)
  /\ CountryOf(<<country(normal)>>) = country(normal)
  /\ (international(normal) <=> international(address))
  /\ (has_invalid_characters(normal) <=> has_invalid_characters(address))
  /\ has_valid_local_address(normal) => has_valid_local_address(address)
  /\ international(address) \/ Len(normal) # 1 =>
       postcode(normal) = postcode(address) /\ city(normal) = city(address)
  /\ international(address) => IsCountry(last_line(normal))

LEMMA FormsStay ==
  ASSUME NEW S, Range(CanonicalName) \subseteq S, NEW address \in Seq(Seq(S))
  PROVE  FormOf(address, S)
<1>1. PICK lines : lines = Lines(address)
  OBVIOUS
<1>2. AreLines(lines, S)
  BY <1>1, LinesAre
<1>3. Lines(lines) = Lines(address)
  BY <1>1, <1>2, LinesOfLines
<1>4. Stays(lines, S)
  BY <1>2, NormalFormStays
<1>5. /\ country(lines) = country(address) /\ (international(lines) <=> international(address))
      /\ postcode(lines) = postcode(address) /\ city(lines) = city(address)
      /\ (has_valid_local_address(lines) <=> has_valid_local_address(address))
      /\ normalised_lines(lines) = normalised_lines(address)
  BY <1>3, SameLines
<1>6. has_invalid_characters(lines) <=> has_invalid_characters(address)
  BY <1>5, Zenon DEF has_invalid_characters
<1> QED BY <1>4, <1>5, <1>6, Zenon DEF Stays, FormOf

(* Whichever way an address is stored, its normal form is read.            *)
LEMMA ReadFromStored ==
  ASSUME NEW S, Range(CanonicalName) \subseteq S, NEW address \in Seq(Seq(S)), line_count(address) <= MAX_LINES,
         NEW lines, lines \in {normalised_lines(address),
                               from_personalisation(as_personalisation(address))}
  PROVE  Lines(lines) = normalised_lines(address) /\ ~has_non_recipient_address_line(lines)
<1>1. PICK normal : normal = normalised_lines(address)
  OBVIOUS
<1>2. AreLines(normal, S) /\ Lines(normal) = normal /\ ~has_non_recipient_address_line(normal)
  BY <1>1, FormsStay, Zenon DEF FormOf
<1>3. Len(normal) <= MAX_LINES
  BY <1>1 DEF line_count
<1>4. /\ as_personalisation(address) = normal
      /\ Lines(from_personalisation(normal)) = normal
      /\ ~has_non_recipient_address_line(from_personalisation(normal))
  BY <1>1, <1>2, <1>3, StoredLines
<1> QED BY <1>1, <1>2, <1>4

(* What was stored comes to the same normal form, the second one.          *)
LEMMA SecondForm ==
  ASSUME AddressInv, line_count(given) <= MAX_LINES, stored
  PROVE  LET first == normalised_lines(given)
             second == normalised_lines(first)
         IN /\ Lines(raw) \in {Lines(first), Lines(second)}
            /\ first \in Seq(Seq(AllWords)) /\ second \in Seq(Seq(AllWords))
            /\ normalised_lines(raw) = second /\ normalised_lines(second) = second
            /\ Len(second) = Len(first) /\ Len(second) <= MAX_LINES
<1>1. PICK S : S = AllWords /\ Range(CanonicalName) \subseteq S
  BY DEF AllWords
<1>2. PICK first, second : first = normalised_lines(given) /\ second = normalised_lines(first)
  OBVIOUS
<1>3. given \in Seq(Seq(S))
  BY <1>1 DEF AddressInv
<1>4. FormOf(given, S)
  BY <1>1, <1>3, FormsStay
<1>5. /\ AreLines(first, S) /\ Lines(first) = first
      /\ normalised_lines(second) = second /\ Len(second) = Len(first)
  BY <1>2, <1>4, Zenon DEF FormOf
<1>6. first \in Seq(Seq(S))
  BY <1>5 DEF AreLines
<1>7. FormOf(first, S)
  BY <1>1, <1>6, FormsStay
<1>8. AreLines(second, S) /\ Lines(second) = second
  BY <1>2, <1>7, Zenon DEF FormOf
<1>9. second \in Seq(Seq(S))
  BY <1>8 DEF AreLines
<1>10. Lines(raw) \in {Lines(first), Lines(second)}
  BY <1>2, <1>5, <1>8 DEF AddressInv
<1>11. normalised_lines(raw) = second
  <2>1. CASE Lines(raw) = Lines(first)
    BY <1>2, <2>1, SameLines
  <2>2. CASE Lines(raw) = Lines(second)
    BY <1>5, <2>2, SameLines
  <2> QED BY <1>10, <2>1, <2>2
<1>12. Len(second) <= MAX_LINES
  BY <1>2, <1>5 DEF line_count
<1> QED BY <1>1, <1>2, <1>5, <1>6, <1>9, <1>10, <1>11, <1>12

LEMMA AddressInitially == AddressInit => AddressInv
  BY AddressesAreLines DEF AddressInit, AddressInv

LEMMA AddressStep == AddressInv /\ [AddressNext]_address_vars => AddressInv'
<1> SUFFICES ASSUME AddressInv, [AddressNext]_address_vars PROVE AddressInv'
  OBVIOUS
<1>1. CASE UNCHANGED address_vars
  BY <1>1 DEF AddressInv, address_vars, line_count, normalised_lines, Lines,
              has_non_recipient_address_line
<1>2. ASSUME NEW lines, ReadAgain(lines),
             lines \in {normalised_lines(raw), from_personalisation(as_personalisation(raw))}
      PROVE  AddressInv'
  <2>1. raw' = lines /\ stored' = TRUE /\ given' = given
    BY <1>2 DEF ReadAgain
  <2>2. ASSUME line_count(given) <= MAX_LINES
        PROVE  /\ Lines(lines) \in {normalised_lines(given), normalised_lines(normalised_lines(given))}
               /\ ~has_non_recipient_address_line(lines)
    <3>1. PICK S : S = AllWords /\ Range(CanonicalName) \subseteq S
      BY DEF AllWords
    <3>2. given \in Seq(Seq(S))
      BY <3>1 DEF AddressInv
    <3>3. CASE ~stored
      <4>1. raw = given
        BY <3>3 DEF AddressInv
      <4>2. Lines(lines) = normalised_lines(given) /\ ~has_non_recipient_address_line(lines)
        BY <1>2, <2>2, <3>1, <3>2, <4>1, ReadFromStored
      <4> QED BY <4>2
    <3>4. CASE stored
      <4>1. PICK second : second = normalised_lines(normalised_lines(given))
        OBVIOUS
      <4>2. /\ second \in Seq(Seq(S)) /\ normalised_lines(raw) = second
            /\ normalised_lines(second) = second /\ Len(second) <= MAX_LINES
        BY <2>2, <3>1, <3>4, <4>1, SecondForm
      <4>3. as_personalisation(raw) = as_personalisation(second)
        BY <4>2, Zenon DEF as_personalisation
      <4>4. line_count(second) <= MAX_LINES
        BY <4>2 DEF line_count
      <4>5. lines \in {normalised_lines(second), from_personalisation(as_personalisation(second))}
        BY <1>2, <4>2, <4>3
      <4>6. Lines(lines) = normalised_lines(second) /\ ~has_non_recipient_address_line(lines)
        BY <3>1, <4>2, <4>4, <4>5, ReadFromStored
      <4> QED BY <4>1, <4>2, <4>6
    <3> QED BY <3>3, <3>4
  <2>3. (line_count(given) <= MAX_LINES)' => line_count(given) <= MAX_LINES
    BY <2>1 DEF line_count, normalised_lines, Lines
  <2> QED BY <2>1, <2>2, <2>3 DEF AddressInv
<1> QED BY <1>1, <1>2 DEF AddressNext

(* Whatever address is given and however often it is stored and read, as   *)
(* text or as personalisation, its lines are its normal form's, or the     *)
(* normal form's of that (postal_address.py:248, :266, :285).              *)
THEOREM AddressesInductive == AddressSpec => []AddressInv
BY AddressInitially, AddressStep, PTL DEF AddressSpec

(* What is kept of an address that is read from its normal form.           *)
Keeps(address, again) ==
  /\ country(again) = CountryOf(<<country(address)>>)
  /\ (international(again) <=> international(address))
  /\ (has_invalid_characters(again) <=> has_invalid_characters(address))
  /\ has_valid_local_address(again) => has_valid_local_address(address)
  /\ international(address) \/ Len(normalised_lines(address)) # 1 =>
       postcode(again) = postcode(address) /\ city(again) = city(address)
  /\ international(address) => IsCountry(last_line(again))
  /\ Again(Lines(again), country(address))

LEMMA FormIsKept ==
  ASSUME NEW S, Range(CanonicalName) \subseteq S, NEW address \in Seq(Seq(S)), NEW again,
         Lines(again) = Lines(normalised_lines(address))
  PROVE  Keeps(address, again)
<1>1. PICK normal : normal = normalised_lines(address)
  OBVIOUS
<1>2. FormOf(address, S)
  BY FormsStay
<1>3. /\ country(again) = country(normal) /\ (international(again) <=> international(normal))
      /\ postcode(again) = postcode(normal) /\ city(again) = city(normal)
      /\ (has_valid_local_address(again) <=> has_valid_local_address(normal))
      /\ normalised_lines(again) = normalised_lines(normal)
  BY <1>1, SameLines
<1>4. has_invalid_characters(again) <=> has_invalid_characters(normal)
  BY <1>3, Zenon DEF has_invalid_characters
<1>5. last_line(again) = last_line(normal)
  BY <1>1, Zenon DEF last_line
<1>6. Lines(again) = normal
  BY <1>1, <1>2, Zenon DEF FormOf
<1> QED BY <1>1, <1>2, <1>3, <1>4, <1>5, <1>6, Zenon DEF FormOf, Keeps

LEMMA StoredIsKept ==
  ASSUME AddressInv, line_count(given) <= MAX_LINES, stored
  PROVE  Keeps(given, raw)
<1>1. PICK S : S = AllWords /\ Range(CanonicalName) \subseteq S
  BY DEF AllWords
<1>2. PICK first, second : first = normalised_lines(given) /\ second = normalised_lines(first)
  OBVIOUS
<1>3. given \in Seq(Seq(S))
  BY <1>1 DEF AddressInv
<1>4. /\ Lines(raw) \in {Lines(first), Lines(second)} /\ first \in Seq(Seq(S))
      /\ normalised_lines(raw) = second /\ normalised_lines(second) = second
      /\ Len(second) = Len(first)
  BY <1>1, <1>2, SecondForm
<1>5. CASE Lines(raw) = Lines(first)
  BY <1>1, <1>2, <1>3, <1>5, FormIsKept
<1>6. CASE Lines(raw) = Lines(second)
  <2>1. Keeps(given, first) /\ Keeps(first, raw)
    BY <1>1, <1>2, <1>3, <1>4, <1>6, FormIsKept
  <2>2. CountryOf(<<country(first)>>) = country(first)
    <3>1. FormOf(given, S)
      BY <1>1, <1>3, FormsStay
    <3> QED BY <1>2, <3>1, Zenon DEF FormOf
  <2>3. Again(Lines(raw), country(given))
    <3>1. FormOf(first, S)
      BY <1>1, <1>4, FormsStay
    <3>2. Lines(raw) = second
      BY <1>2, <1>6, <3>1, Zenon DEF FormOf
    <3> QED BY <1>4, <3>2 DEF Again
  <2>4. Len(normalised_lines(first)) = Len(normalised_lines(given))
    BY <1>2, <1>4
  <2> QED BY <2>1, <2>2, <2>3, <2>4, Zenon DEF Keeps
<1> QED BY <1>4, <1>5, <1>6

LEMMA StoredStays == AddressInv => StoredAddressesStay
<1> SUFFICES ASSUME AddressInv, stored, line_count(given) <= MAX_LINES
    PROVE /\ \/ normalised_lines(raw) = Lines(raw)
             \/ /\ last_line(raw) = <<country(given)>> /\ country(raw) # country(given)
                /\ normalised_lines(raw) = InCountry(Lines(raw), country(raw))
          /\ country(raw) = CountryOf(<<country(given)>>)
          /\ valid(given) =>
               /\ valid(raw) /\ has_valid_last_line(raw)
               /\ postcode(raw) = postcode(given) /\ city(raw) = city(given)
          /\ valid(raw) => valid(given) \/ has_non_recipient_address_line(given)
  BY DEF StoredAddressesStay
<1>1. Keeps(given, raw)
  BY StoredIsKept
<1>2. PICK first, second : first = normalised_lines(given) /\ second = normalised_lines(first)
  OBVIOUS
<1>3. normalised_lines(raw) = second /\ Len(second) = Len(first)
  BY <1>2, SecondForm
<1>4. ~has_non_recipient_address_line(raw)
  BY DEF AddressInv
<1>5. /\ has_enough_lines(raw) <=> has_enough_lines(given)
      /\ has_too_many_lines(raw) <=> has_too_many_lines(given)
  BY <1>2, <1>3 DEF has_enough_lines, has_too_many_lines, line_count
<1>6. has_enough_lines(given) => Len(normalised_lines(given)) # 1
  <2>1. has_enough_lines(given) => Len(normalised_lines(given)) >= MIN_LINES
    BY DEF has_enough_lines, line_count
  <2>2. ~(1 >= MIN_LINES)
    BY AddressAssumption
  <2> QED BY <2>1, <2>2
<1>7. PICK lines : lines = Lines(raw) /\ Lines(lines) = lines
  <2>1. PICK S : S = AllWords /\ Range(CanonicalName) \subseteq S
    BY DEF AllWords
  <2>2. given \in Seq(Seq(S)) /\ first \in Seq(Seq(S))
    BY <1>2, <2>1, SecondForm DEF AddressInv
  <2>3. FormOf(given, S) /\ FormOf(first, S)
    BY <2>1, <2>2, FormsStay
  <2>4. Lines(first) = first /\ Lines(second) = second
    BY <1>2, <2>3, Zenon DEF FormOf
  <2>5. Lines(raw) \in {first, second}
    BY <1>2 DEF AddressInv
  <2> QED BY <2>4, <2>5
<1>8. \/ normalised_lines(raw) = Lines(raw)
      \/ /\ last_line(raw) = <<country(given)>> /\ country(raw) # country(given)
         /\ normalised_lines(raw) = InCountry(Lines(raw), country(raw))
  <2>1. normalised_lines(lines) = normalised_lines(raw) /\ country(lines) = country(raw)
    BY <1>7, SameLines
  <2>2. last_line(lines) = last_line(raw)
    BY <1>7, Zenon DEF last_line
  <2>3. Again(lines, country(given))
    BY <1>1, <1>7, Zenon DEF Keeps
  <2> QED BY <1>7, <2>1, <2>2, <2>3 DEF Again
<1>9. ASSUME valid(given)
      PROVE  /\ valid(raw) /\ has_valid_last_line(raw)
             /\ postcode(raw) = postcode(given) /\ city(raw) = city(given)
  <2>1. postcode(raw) = postcode(given) /\ city(raw) = city(given)
    BY <1>1, <1>6, <1>9 DEF valid, Keeps
  <2>2. /\ has_enough_lines(raw) /\ ~has_too_many_lines(raw) /\ ~has_invalid_characters(raw)
        /\ (international(raw) <=> international(given))
    BY <1>1, <1>5, <1>9 DEF valid, Keeps
  <2>3. CASE international(given)
    <3>1. IsCountry(last_line(raw)) /\ allow_international_letters
      BY <1>1, <1>9, <2>3
         DEF Keeps, valid, has_valid_local_or_international_address,
             has_valid_international_address
    <3> QED BY <1>4, <2>1, <2>2, <2>3, <3>1
               DEF valid, has_valid_last_line, has_valid_local_or_international_address,
                   has_valid_international_address
  <2>4. CASE ~international(given)
    <3>1. has_valid_local_address(given) /\ has_valid_local_address(raw)
      BY <1>9, <2>1, <2>4
         DEF valid, has_valid_local_or_international_address, has_valid_local_address
    <3> QED BY <1>4, <2>1, <2>2, <2>4, <3>1
               DEF valid, has_valid_last_line, has_valid_local_or_international_address
  <2> QED BY <2>3, <2>4
<1>10. valid(raw) => valid(given) \/ has_non_recipient_address_line(given)
  <2>1. /\ (international(raw) <=> international(given))
        /\ (has_invalid_characters(raw) <=> has_invalid_characters(given))
        /\ has_valid_local_address(raw) => has_valid_local_address(given)
    BY <1>1, Zenon DEF Keeps
  <2> QED BY <1>5, <2>1 DEF valid, has_valid_local_or_international_address,
                            has_valid_international_address
<1>11. country(raw) = CountryOf(<<country(given)>>)
  BY <1>1 DEF Keeps
<1> QED BY <1>8, <1>9, <1>10, <1>11

(* An address that was stored is its own normal form but for a name of its *)
(* country that changes once more, and as valid, of the same country,      *)
(* postcode and city, as it was given (postal_address.py:285, :429).       *)
THEOREM AddressesAlwaysStay == AddressSpec => []StoredAddressesStay
<1>1. AddressInv => StoredAddressesStay
  BY StoredStays
<1> QED BY <1>1, AddressesInductive, PTL

-----------------------------------------------------------------------------
(* How often a word is there, and in lists of lines.                       *)

LEMMA OftenIsANumber ==
  ASSUME NEW S, NEW words \in Seq(S), NEW word
  PROVE  /\ Often(words, word) \in Nat
         /\ IsFiniteSet({n \in DOMAIN words : words[n] = word})
<1>1. PICK m \in Nat : m = Len(words) /\ DOMAIN words = 1..m
  BY LenProperties
<1>2. IsFiniteSet(1..m)
  BY <1>1, FS_Interval
<1>3. IsFiniteSet({n \in DOMAIN words : words[n] = word})
  BY <1>1, <1>2, FS_Subset
<1> QED BY <1>3, FS_CardinalityType DEF Often

LEMMA OftenOfNothing == \A word : Often(<<>>, word) = 0
<1> TAKE word
<1>1. {n \in DOMAIN <<>> : <<>>[n] = word} = {}
  OBVIOUS
<1> QED BY <1>1, FS_EmptySet, Zenon DEF Often

LEMMA OftenOfAppended ==
  ASSUME NEW S, NEW words \in Seq(S), NEW new \in S, NEW word
  PROVE  Often(Append(words, new), word) = Often(words, word) + (IF new = word THEN 1 ELSE 0)
<1>1. PICK m \in Nat : m = Len(words) /\ DOMAIN words = 1..m
  BY LenProperties
<1>2. PICK more : more = Append(words, new)
  OBVIOUS
<1>3. /\ more \in Seq(S) /\ Len(more) = m + 1 /\ more[m + 1] = new
      /\ \A k \in 1..m : more[k] = words[k]
  BY <1>1, <1>2, Appended
<1>4. DOMAIN more = 1..m \cup {m + 1} /\ m + 1 \notin 1..m
  <2>1. DOMAIN more = 1..(m + 1)
    BY <1>3, LenProperties
  <2> QED BY <1>1, <2>1
<1>5. PICK before : before = {n \in DOMAIN words : words[n] = word}
  OBVIOUS
<1>6. IsFiniteSet(before) /\ Cardinality(before) \in Nat /\ Often(words, word) = Cardinality(before)
  BY <1>5, OftenIsANumber DEF Often
<1>7. {n \in DOMAIN more : more[n] = word} = IF new = word THEN before \cup {m + 1} ELSE before
  BY <1>1, <1>3, <1>4, <1>5
<1>8. m + 1 \notin before
  BY <1>1, <1>4, <1>5
<1>9. Cardinality(before \cup {m + 1}) = Cardinality(before) + 1
  BY <1>6, <1>8, FS_AddElement
<1>10. Often(more, word) = Cardinality(IF new = word THEN before \cup {m + 1} ELSE before)
  BY <1>7 DEF Often
<1> QED BY <1>2, <1>6, <1>9, <1>10

(* A list is made by appending.                                            *)
LEMMA UpToNext ==
  ASSUME NEW S, NEW list \in Seq(S), NEW k \in Nat, k < Len(list)
  PROVE  /\ SubSeq(list, 1, k) \in Seq(S) /\ list[k + 1] \in S
         /\ SubSeq(list, 1, k + 1) = Append(SubSeq(list, 1, k), list[k + 1])
<1>1. Len(list) \in Nat
  BY LenProperties
<1>2. k + 1 \in 1..Len(list) /\ 1 \in 1..Len(list) /\ (k + 1) - 1 = k /\ k \in 0..Len(list)
      /\ 1 \in 1..(Len(list) + 1)
  BY <1>1
<1>3. SubSeq(list, 1, k) \in Seq(S)
  BY <1>2, PartOf
<1>4. SubSeq(list, 1, k + 1) = SubSeq(list, 1, (k + 1) - 1) \o <<list[k + 1]>>
  BY <1>2, SubSeqRecursiveSecond
<1>5. list[k + 1] \in S
  BY <1>2, ElementOfSeq
<1>6. Append(SubSeq(list, 1, k), list[k + 1]) = SubSeq(list, 1, k) \o <<list[k + 1]>>
  BY <1>3, <1>5, AppendIsConcat
<1> QED BY <1>2, <1>3, <1>4, <1>5, <1>6

LEMMA AppendedLast ==
  ASSUME NEW S, NEW one \in Seq(S), NEW part \in Seq(S), NEW new \in S
  PROVE  one \o part \in Seq(S) /\ one \o Append(part, new) = Append(one \o part, new)
<1>1. PICK end \in Seq(S) : end = <<new>>
  <2>1. <<new>> \in Seq(S)
    OBVIOUS
  <2> QED BY <2>1, Zenon
<1>2. PICK both : both = one \o part
  OBVIOUS
<1>3. both \in Seq(S)
  BY <1>2, ConcatProperties
<1>4. Append(part, new) = part \o <<new>>
  BY AppendIsConcat
<1>5. Append(both, new) = both \o <<new>>
  BY <1>3, AppendIsConcat
<1>6. (one \o part) \o end = one \o (part \o end)
  BY ConcatAssociative
<1> QED BY <1>1, <1>2, <1>3, <1>4, <1>5, <1>6, Zenon

LEMMA OftenOfBoth ==
  ASSUME NEW S, NEW one \in Seq(S), NEW other \in Seq(S), NEW word
  PROVE  Often(one \o other, word) = Often(one, word) + Often(other, word)
<1>1. PICK n \in Nat : n = Len(other)
  BY LenProperties
<1> DEFINE P(k) == Often(one \o SubSeq(other, 1, k), word)
                     = Often(one, word) + Often(SubSeq(other, 1, k), word)
           T == {k \in 0..n : P(k)}
<1>2. P(0)
  <2>1. SubSeq(other, 1, 0) = <<>>
    BY SubSeqEmpty
  <2>3. one \o <<>> = one
    BY ConcatEmptySeq
  <2>2. Often(one, word) \in Nat
    BY OftenIsANumber
  <2>4. Often(<<>>, word) = 0
    BY OftenOfNothing
  <2>5. Often(one \o <<>>, word) = Often(one, word) + Often(<<>>, word)
    BY <2>2, <2>3, <2>4
  <2> QED BY <2>1, <2>5, Zenon
<1>3. ASSUME NEW k \in 0..n, P(k), k < n PROVE P(k + 1)
  <2>1. PICK part \in Seq(S), new \in S :
          /\ part = SubSeq(other, 1, k) /\ new = other[k + 1]
          /\ SubSeq(other, 1, k + 1) = Append(part, new)
    <3>1. k \in Nat /\ k < Len(other)
      BY <1>1, <1>3
    <3> HIDE DEF P
    <3>2. /\ SubSeq(other, 1, k) \in Seq(S) /\ other[k + 1] \in S
          /\ SubSeq(other, 1, k + 1) = Append(SubSeq(other, 1, k), other[k + 1])
      BY <3>1, UpToNext
    <3> QED BY <3>2
  <2>2. PICK both : both = one \o part
    OBVIOUS
  <2>3. both \in Seq(S) /\ one \o Append(part, new) = Append(both, new)
    BY <2>2, AppendedLast
  <2>4. Often(Append(both, new), word) = Often(both, word) + (IF new = word THEN 1 ELSE 0)
    BY <2>3, OftenOfAppended
  <2>5. Often(Append(part, new), word) = Often(part, word) + (IF new = word THEN 1 ELSE 0)
    BY OftenOfAppended
  <2>6. Often(one, word) \in Nat /\ Often(part, word) \in Nat
    BY OftenIsANumber
  <2>7. Often(both, word) = Often(one, word) + Often(part, word)
    BY <1>3, <2>1, <2>2
  <2>8. Often(one \o Append(part, new), word) = Often(one, word) + Often(Append(part, new), word)
    BY <2>3, <2>4, <2>5, <2>6, <2>7
  <2> QED BY <2>1, <2>8
<1>4. 0 \in T /\ \A k \in 0..n : k \in T /\ k < n => k + 1 \in T
  <2> HIDE DEF P
  <2>1. 0 \in 0..n /\ \A k \in 0..n : k < n => k + 1 \in 0..n
    OBVIOUS
  <2> QED BY <1>2, <1>3, <2>1, Zenon
<1>5. \A k \in 0..n : k \in T
  <2> HIDE DEF T
  <2> QED BY <1>4, StepByStep
<1>6. n \in 0..n
  OBVIOUS
<1>7. P(n)
  <2> HIDE DEF P
  <2> QED BY <1>5, <1>6
<1> QED BY <1>1, <1>7, SubSeqFull

(* The words of lines, line by line.                                       *)
WithWords(words, line) == words \o line

LEMMA WordsSteps ==
  ASSUME NEW S, NEW lines \in Seq(Seq(S))
  PROVE  \E f \in [0..Len(lines) -> Seq(S)] :
           /\ f[0] = <<>>
           /\ \A k \in 1..Len(lines) : f[k] = WithWords(f[k - 1], lines[k])
           /\ Words(lines) = f[Len(lines)]
<1>0. PICK n \in Nat : n = Len(lines)
  BY LenProperties
<1>1. PICK V : V = Seq(S)
  OBVIOUS
<1>2. DOMAIN lines = 1..n /\ <<>> \in V /\ \A k \in 1..n : lines[k] \in Seq(S)
  BY <1>0, <1>1
<1>3. PICK h : h = [v \in V |-> [k \in 1..n |-> WithWords(v, lines[k])]]
  OBVIOUS
<1>4. h \in Changes(n, V)
  <2>1. \A v \in V, k \in 1..n : WithWords(v, lines[k]) \in V
    BY <1>0, <1>1, <1>2, ConcatProperties DEF WithWords
  <2> QED BY <1>3, <2>1 DEF Changes
<1> DEFINE IsFold(g) ==
      g = [s \in SUBSET DOMAIN lines |->
             IF s = {} THEN <<>> ELSE WithWords(g[Except(s)], lines[Max(s)])]
<1>5. \E g : IsFold(g)
  <2>1. PICK g \in [SUBSET (1..n) -> V] : IsFoldOf(g, n, <<>>, h)
    BY <1>2, <1>4, FoldExists, Zenon
  <2>2. ASSUME NEW s \in SUBSET (1..n), s # {}
        PROVE  h[g[Except(s)]][Max(s)] = WithWords(g[Except(s)], lines[Max(s)])
    <3>1. Max(s) \in 1..n /\ Except(s) \in SUBSET (1..n)
      BY <2>2, LastPlace DEF Except
    <3> QED BY <1>3, <2>1, <3>1
  <2>3. IsFold(g)
    BY <1>2, <2>1, <2>2 DEF IsFoldOf
  <2> QED BY <2>3
<1>6. PICK iter : iter = (CHOOSE g : IsFold(g))
  OBVIOUS
<1>7. IsFold(iter)
  <2> HIDE DEF IsFold
  <2> QED BY <1>5, <1>6
<1>8. Words(lines) = iter[1..n]
  BY <1>2, <1>6, Zenon DEF Words, WithWords, FoldLeft, MapThenFoldSet, Except
<1>9. iter[{}] = <<>>
  BY <1>7
<1>10. FollowsFrom(iter, n, V, h)
  <2>1. ASSUME NEW s \in SUBSET (1..n), s # {}, iter[Except(s)] \in V
        PROVE  iter[s] = h[iter[Except(s)]][Max(s)]
    <3>1. Max(s) \in 1..n
      BY <2>1, LastPlace
    <3> QED BY <1>2, <1>3, <1>7, <2>1, <3>1
  <2> QED BY <2>1 DEF FollowsFrom
<1>11. PICK f \in [0..n -> V] : Steps(f, n, <<>>, h) /\ iter[1..n] = f[n]
  <2> HIDE DEF IsFold
  <2> QED BY <1>2, <1>4, <1>9, <1>10, FoldSteps
<1>12. ASSUME NEW k \in 1..n PROVE f[k] = WithWords(f[k - 1], lines[k])
  <2>0. k - 1 \in 0..n
    BY <1>0
  <2>1. f[k - 1] \in V
    BY <1>11, <2>0
  <2> QED BY <1>3, <1>11, <2>1 DEF Steps
<1> QED BY <1>0, <1>1, <1>8, <1>11, <1>12 DEF Steps

CountIn(lines, word) == Often(Words(lines), word)

LEMMA WordsOfNothing == Words(<<>>) = <<>>
<1>1. PICK nothing \in Seq(Seq({})) : nothing = <<>> /\ Len(nothing) = 0
  <2>1. <<>> \in Seq(Seq({})) /\ Len(<<>>) = 0
    BY EmptySeq
  <2> QED BY <2>1, Zenon
<1>2. PICK f \in [0..Len(nothing) -> Seq({})] :
        f[0] = <<>> /\ Words(nothing) = f[Len(nothing)]
  BY WordsSteps
<1> QED BY <1>1, <1>2

LEMMA WordsOfAppended ==
  ASSUME NEW S, NEW lines \in Seq(Seq(S)), NEW new \in Seq(S)
  PROVE  /\ Words(lines) \in Seq(S)
         /\ Words(Append(lines, new)) = Words(lines) \o new
<1>1. PICK n \in Nat : n = Len(lines)
  BY LenProperties
<1>2. PICK more : more = Append(lines, new)
  OBVIOUS
<1>3. /\ more \in Seq(Seq(S)) /\ Len(more) = n + 1 /\ more[n + 1] = new
      /\ \A k \in 1..n : more[k] = lines[k]
  BY <1>1, <1>2, Appended
<1>4. PICK f \in [0..n -> Seq(S)] :
        /\ f[0] = <<>> /\ Words(lines) = f[n]
        /\ \A k \in 1..n : f[k] = WithWords(f[k - 1], lines[k])
  <2>1. \E f \in [0..Len(lines) -> Seq(S)] :
           /\ f[0] = <<>>
           /\ \A k \in 1..Len(lines) : f[k] = WithWords(f[k - 1], lines[k])
           /\ Words(lines) = f[Len(lines)]
    BY WordsSteps, Zenon
  <2> QED BY <1>1, <2>1
<1>5. PICK g \in [0..(n + 1) -> Seq(S)] :
        /\ g[0] = <<>> /\ Words(more) = g[n + 1]
        /\ \A k \in 1..(n + 1) : g[k] = WithWords(g[k - 1], more[k])
  <2>1. \E g \in [0..Len(more) -> Seq(S)] :
           /\ g[0] = <<>>
           /\ \A k \in 1..Len(more) : g[k] = WithWords(g[k - 1], more[k])
           /\ Words(more) = g[Len(more)]
    BY <1>3, WordsSteps, Zenon
  <2> QED BY <1>3, <2>1
<1> DEFINE T == {k \in 0..n : f[k] = g[k]}
<1>6. 0 \in T /\ \A k \in 0..n : k \in T /\ k < n => k + 1 \in T
  <2>1. ASSUME NEW k \in 0..n, k \in T, k < n PROVE k + 1 \in T
    <3>1. k + 1 \in 1..n /\ k + 1 \in 1..(n + 1) /\ (k + 1) - 1 = k /\ k + 1 \in 0..n
      BY <2>1
    <3>2. f[k + 1] = WithWords(f[k], lines[k + 1]) /\ g[k + 1] = WithWords(g[k], more[k + 1])
      BY <1>4, <1>5, <3>1
    <3> QED BY <1>3, <2>1, <3>1, <3>2
  <2> QED BY <1>4, <1>5, <2>1
<1>7. \A k \in 0..n : k \in T
  <2> HIDE DEF T
  <2> QED BY <1>6, StepByStep
<1>8. f[n] = g[n] /\ f[n] \in Seq(S)
  <2>1. n \in 0..n
    OBVIOUS
  <2> QED BY <1>4, <1>7, <2>1
<1>9. g[n + 1] = WithWords(g[n], new)
  <2>1. n + 1 \in 1..(n + 1) /\ (n + 1) - 1 = n
    OBVIOUS
  <2> QED BY <1>3, <1>5, <2>1
<1> QED BY <1>2, <1>4, <1>5, <1>8, <1>9 DEF WithWords

LEMMA CountOfNothing == \A word : CountIn(<<>>, word) = 0
BY WordsOfNothing, OftenOfNothing DEF CountIn

LEMMA CountOfAppended ==
  ASSUME NEW S, NEW lines \in Seq(Seq(S)), NEW new \in Seq(S), NEW word
  PROVE  /\ CountIn(lines, word) \in Nat /\ Often(new, word) \in Nat
         /\ CountIn(Append(lines, new), word) = CountIn(lines, word) + Often(new, word)
<1>1. Words(lines) \in Seq(S) /\ Words(Append(lines, new)) = Words(lines) \o new
  BY WordsOfAppended
<1>2. Often(Words(lines), word) \in Nat /\ Often(new, word) \in Nat
  BY <1>1, OftenIsANumber
<1>3. Often(Words(lines) \o new, word) = Often(Words(lines), word) + Often(new, word)
  BY <1>1, OftenOfBoth
<1> QED BY <1>1, <1>2, <1>3, Zenon DEF CountIn

(* What is taken from lines has their words, but for those of the lines    *)
(* that are not: of those one may have the word.                           *)
TakesAllBut(list, chosen, q, word) ==
  /\ q # 0 => list[q] \notin chosen
  /\ \A k \in 1..Len(list) : k # q => list[k] \in chosen \/ Often(list[k], word) = 0

LEMMA CountOfWhere ==
  ASSUME NEW S, NEW list \in Seq(Seq(S)), NEW chosen, NEW q \in 0..Len(list), NEW word,
         TakesAllBut(list, chosen, q, word)
  PROVE  CountIn(list, word)
           = CountIn(Where(list, chosen), word) + (IF q = 0 THEN 0 ELSE Often(list[q], word))
<1>1. PICK n \in Nat : n = Len(list) /\ \A k \in 1..n : list[k] \in Seq(S)
  BY LenProperties
<1>2. PICK f \in [0..n -> Seq(Seq(S))] :
        /\ f[0] = <<>> /\ Where(list, chosen) = f[n]
        /\ \A k \in 1..n : f[k] = Taken(f[k - 1], list[k], chosen)
  <2>1. \E f \in [0..Len(list) -> Seq(Seq(S))] :
           /\ f[0] = <<>>
           /\ \A k \in 1..Len(list) : f[k] = Taken(f[k - 1], list[k], chosen)
           /\ Where(list, chosen) = f[Len(list)]
    BY WhereSteps, Zenon
  <2> QED BY <1>1, <2>1
<1>3. q \in Nat /\ q <= n
  BY <1>1
<1> DEFINE Of(k) == IF q = 0 \/ k < q THEN 0 ELSE Often(list[q], word)
           P(k) == CountIn(SubSeq(list, 1, k), word) = CountIn(f[k], word) + Of(k)
           T == {k \in 0..n : P(k)}
<1>4. P(0)
  <2>1. SubSeq(list, 1, 0) = <<>>
    BY SubSeqEmpty
  <2>2. Of(0) = 0
    BY <1>3
  <2> HIDE DEF Of
  <2>3. CountIn(<<>>, word) = 0
    BY CountOfNothing
  <2>4. CountIn(<<>>, word) = CountIn(<<>>, word) + Of(0)
    BY <2>2, <2>3
  <2> QED BY <1>2, <2>1, <2>4, Zenon
<1>5. ASSUME NEW k \in 0..n, P(k), k < n PROVE P(k + 1)
  <2>1. k + 1 \in 1..n /\ (k + 1) - 1 = k /\ k \in Nat /\ k < Len(list)
    BY <1>1, <1>5
  <2>2. PICK part \in Seq(Seq(S)), new \in Seq(S) :
          /\ part = SubSeq(list, 1, k) /\ new = list[k + 1]
          /\ SubSeq(list, 1, k + 1) = Append(part, new)
    <3> HIDE DEF P
    <3>1. /\ SubSeq(list, 1, k) \in Seq(Seq(S)) /\ list[k + 1] \in Seq(S)
          /\ SubSeq(list, 1, k + 1) = Append(SubSeq(list, 1, k), list[k + 1])
      BY <2>1, UpToNext
    <3> QED BY <3>1
  <2>3. PICK some \in Seq(Seq(S)) : some = f[k]
    BY <1>2
  <2>4. f[k + 1] = Taken(some, new, chosen)
    BY <1>2, <2>1, <2>2, <2>3
  <2>5. /\ CountIn(part, word) \in Nat /\ CountIn(some, word) \in Nat /\ Often(new, word) \in Nat
        /\ CountIn(Append(part, new), word) = CountIn(part, word) + Often(new, word)
        /\ CountIn(Append(some, new), word) = CountIn(some, word) + Often(new, word)
    BY CountOfAppended
  <2>6. CountIn(part, word) = CountIn(some, word) + Of(k)
    BY <1>5, <2>2, <2>3
  <2>7. CASE k + 1 = q
    <3>1. Of(k) = 0 /\ Of(k + 1) = Often(new, word)
      BY <1>3, <2>1, <2>2, <2>7
    <3>2. new \notin chosen
      BY <1>3, <2>1, <2>2, <2>7 DEF TakesAllBut
    <3>3. f[k + 1] = some
      BY <2>4, <3>2 DEF Taken
    <3>4. CountIn(Append(part, new), word) = CountIn(some, word) + Of(k + 1)
      BY <2>5, <2>6, <3>1
    <3> HIDE DEF Of
    <3> QED BY <2>2, <3>3, <3>4, Zenon
  <2>8. CASE k + 1 # q
    <3>1. Of(k + 1) = Of(k)
      BY <1>3, <2>1, <2>8
    <3>2. new \in chosen \/ Often(new, word) = 0
      BY <1>1, <2>1, <2>2, <2>8 DEF TakesAllBut
    <3>3. Of(k) \in Nat
      <4>1. q # 0 => list[q] \in Seq(S)
        BY <1>1, <1>3
      <4>2. q # 0 => Often(list[q], word) \in Nat
        BY <4>1, OftenIsANumber
      <4> QED BY <4>2
    <3> HIDE DEF Of, P
    <3>6. PICK m \in Nat : m = Of(k)
      BY <3>3
    <3>4. CASE new \in chosen
      <4>1. f[k + 1] = Append(some, new)
        BY <2>4, <3>4 DEF Taken
      <4>2. CountIn(Append(part, new), word) = CountIn(Append(some, new), word) + m
        BY <2>5, <2>6, <3>6
      <4> QED BY <2>2, <3>1, <3>6, <4>1, <4>2, Zenon DEF P
    <3>5. CASE new \notin chosen
      <4>1. f[k + 1] = some /\ Often(new, word) = 0
        BY <2>4, <3>2, <3>5 DEF Taken
      <4>2. CountIn(Append(part, new), word) = CountIn(some, word) + m
        BY <2>5, <2>6, <3>6, <4>1
      <4> QED BY <2>2, <3>1, <3>6, <4>1, <4>2, Zenon DEF P
    <3> QED BY <3>4, <3>5
  <2> QED BY <2>7, <2>8
<1>6. 0 \in T /\ \A k \in 0..n : k \in T /\ k < n => k + 1 \in T
  <2> HIDE DEF P
  <2>1. 0 \in 0..n /\ \A k \in 0..n : k < n => k + 1 \in 0..n
    OBVIOUS
  <2> QED BY <1>4, <1>5, <2>1, Zenon
<1>7. \A k \in 0..n : k \in T
  <2> HIDE DEF T
  <2> QED BY <1>6, StepByStep
<1>8. n \in 0..n
  OBVIOUS
<1>9. P(n)
  <2> HIDE DEF P
  <2> QED BY <1>7, <1>8
<1>10. Of(n) = IF q = 0 THEN 0 ELSE Often(list[q], word)
  BY <1>3
<1> HIDE DEF Of
<1> QED BY <1>1, <1>2, <1>9, <1>10, SubSeqFull

(* Of two lists that are put together.                                     *)
LEMMA CountOfBoth ==
  ASSUME NEW S, NEW one \in Seq(Seq(S)), NEW other \in Seq(Seq(S)), NEW word
  PROVE  CountIn(one \o other, word) = CountIn(one, word) + CountIn(other, word)
<1>1. PICK n \in Nat : n = Len(other)
  BY LenProperties
<1> DEFINE P(k) == CountIn(one \o SubSeq(other, 1, k), word)
                     = CountIn(one, word) + CountIn(SubSeq(other, 1, k), word)
           T == {k \in 0..n : P(k)}
<1>2. P(0)
  <2>1. SubSeq(other, 1, 0) = <<>>
    BY SubSeqEmpty
  <2>3. one \o <<>> = one
    BY ConcatEmptySeq
  <2>2. CountIn(one, word) \in Nat
    <3>1. <<>> \in Seq(S)
      BY EmptySeq
    <3> QED BY <3>1, CountOfAppended
  <2>4. CountIn(<<>>, word) = 0
    BY CountOfNothing
  <2>5. CountIn(one \o <<>>, word) = CountIn(one, word) + CountIn(<<>>, word)
    BY <2>2, <2>3, <2>4
  <2> QED BY <2>1, <2>5, Zenon
<1>3. ASSUME NEW k \in 0..n, P(k), k < n PROVE P(k + 1)
  <2>1. PICK part \in Seq(Seq(S)), new \in Seq(S) :
          /\ part = SubSeq(other, 1, k) /\ new = other[k + 1]
          /\ SubSeq(other, 1, k + 1) = Append(part, new)
    <3>1. k \in Nat /\ k < Len(other)
      BY <1>1, <1>3
    <3> HIDE DEF P
    <3>2. /\ SubSeq(other, 1, k) \in Seq(Seq(S)) /\ other[k + 1] \in Seq(S)
          /\ SubSeq(other, 1, k + 1) = Append(SubSeq(other, 1, k), other[k + 1])
      BY <3>1, UpToNext
    <3> QED BY <3>2
  <2>2. PICK both : both = one \o part
    OBVIOUS
  <2>3. both \in Seq(Seq(S)) /\ one \o Append(part, new) = Append(both, new)
    BY <2>2, AppendedLast
  <2>4. /\ CountIn(both, word) \in Nat /\ Often(new, word) \in Nat
        /\ CountIn(Append(both, new), word) = CountIn(both, word) + Often(new, word)
    BY <2>3, CountOfAppended
  <2>5. /\ CountIn(part, word) \in Nat
        /\ CountIn(Append(part, new), word) = CountIn(part, word) + Often(new, word)
    BY CountOfAppended
  <2>6. CountIn(one, word) \in Nat
    BY CountOfAppended
  <2>7. CountIn(both, word) = CountIn(one, word) + CountIn(part, word)
    BY <1>3, <2>1, <2>2
  <2>8. CountIn(one \o Append(part, new), word)
          = CountIn(one, word) + CountIn(Append(part, new), word)
    BY <2>3, <2>4, <2>5, <2>6, <2>7
  <2> QED BY <2>1, <2>8
<1>4. 0 \in T /\ \A k \in 0..n : k \in T /\ k < n => k + 1 \in T
  <2> HIDE DEF P
  <2>1. 0 \in 0..n /\ \A k \in 0..n : k < n => k + 1 \in 0..n
    OBVIOUS
  <2> QED BY <1>2, <1>3, <2>1, Zenon
<1>5. \A k \in 0..n : k \in T
  <2> HIDE DEF T
  <2> QED BY <1>4, StepByStep
<1>6. n \in 0..n
  OBVIOUS
<1>7. P(n)
  <2> HIDE DEF P
  <2> QED BY <1>5, <1>6
<1> QED BY <1>1, <1>7, SubSeqFull

(* A line, and the lines around it.                                        *)
LEMMA CountAround ==
  ASSUME NEW S, NEW list \in Seq(Seq(S)), NEW i \in 1..Len(list), NEW word
  PROVE  /\ Often(list[i], word) \in Nat
         /\ CountIn(RemoveAt(list, i), word) \in Nat
         /\ CountIn(list, word) = CountIn(RemoveAt(list, i), word) + Often(list[i], word)
<1>1. PICK n \in Nat : n = Len(list) /\ i \in 1..n
  BY LenProperties
<1>2. PICK before \in Seq(Seq(S)), after \in Seq(Seq(S)) :
        before = SubSeq(list, 1, i - 1) /\ after = SubSeq(list, i + 1, n)
  <2>1. /\ 1 \in 1..(Len(list) + 1) /\ i - 1 \in 0..Len(list)
        /\ i + 1 \in 1..(Len(list) + 1) /\ n \in 0..Len(list)
    BY <1>1
  <2>2. SubSeq(list, 1, i - 1) \in Seq(Seq(S))
    BY <2>1, PartOf
  <2>3. SubSeq(list, i + 1, n) \in Seq(Seq(S))
    BY <2>1, PartOf
  <2> QED BY <2>2, <2>3
<1>3. PICK upto, line : upto = SubSeq(list, 1, i) /\ line = list[i]
  OBVIOUS
<1>4. upto = Append(before, line) /\ line \in Seq(S)
  <2>1. i - 1 \in Nat /\ i - 1 < Len(list) /\ (i - 1) + 1 = i
    BY <1>1
  <2>2. /\ list[(i - 1) + 1] \in Seq(S)
        /\ SubSeq(list, 1, (i - 1) + 1) = Append(SubSeq(list, 1, i - 1), list[(i - 1) + 1])
    BY <2>1, UpToNext
  <2> QED BY <1>2, <1>3, <2>1, <2>2
<1>5. list = upto \o after
  <2>1. 1 \in 1..(Len(list) + 1) /\ i \in (1 - 1)..Len(list) /\ n \in i..Len(list)
    BY <1>1
  <2>2. SubSeq(list, 1, i) \o SubSeq(list, i + 1, n) = SubSeq(list, 1, n)
    BY <2>1, ConcatAdjacentSubSeq
  <2> QED BY <1>1, <1>2, <1>3, <2>2, SubSeqFull
<1>6. RemoveAt(list, i) = before \o after
  BY <1>1, <1>2, Zenon DEF RemoveAt
<1>7. upto \in Seq(Seq(S))
  BY <1>4, Appended
<1>8. /\ CountIn(before, word) \in Nat /\ CountIn(after, word) \in Nat /\ Often(line, word) \in Nat
      /\ CountIn(upto, word) = CountIn(before, word) + Often(line, word)
  BY <1>4, CountOfAppended
<1>9. CountIn(list, word) = CountIn(upto, word) + CountIn(after, word)
  BY <1>5, <1>7, CountOfBoth
<1>10. CountIn(before \o after, word) = CountIn(before, word) + CountIn(after, word)
  BY CountOfBoth
<1> QED BY <1>3, <1>6, <1>8, <1>9, <1>10

-----------------------------------------------------------------------------
(* A valid address goes out whole.  A line is what is before one of its    *)
(* words, the word, and what is after it.                                  *)
IsAround(line, c, before, after, word, S) ==
  /\ before \in Seq(S) /\ after \in Seq(S)
  /\ Often(before, word) \in Nat /\ Often(after, word) \in Nat
  /\ Often(line, word) = Often(before, word) + (IF line[c] = word THEN 1 ELSE 0)
                           + Often(after, word)

LEMMA OftenAround ==
  ASSUME NEW S, NEW line \in Seq(S), NEW c \in 1..Len(line), NEW word,
         NEW before, before = SubSeq(line, 1, c - 1),
         NEW after, after = SubSeq(line, c + 1, Len(line))
  PROVE  IsAround(line, c, before, after, word, S)
<1>1. PICK n \in Nat : n = Len(line) /\ c \in 1..n
  BY LenProperties
<1>2. before \in Seq(S)
  <2>1. 1 \in 1..(Len(line) + 1) /\ c - 1 \in 0..Len(line)
    BY <1>1
  <2> QED BY <2>1, PartOf
<1>3. after \in Seq(S)
  <2>1. c + 1 \in 1..(Len(line) + 1) /\ Len(line) \in 0..Len(line)
    BY <1>1
  <2> QED BY <2>1, PartOf
<1>4. PICK upto, new : upto = SubSeq(line, 1, c) /\ new = line[c]
  OBVIOUS
<1>5. upto = Append(before, new) /\ new \in S
  <2>1. c - 1 \in Nat /\ c - 1 < Len(line) /\ (c - 1) + 1 = c
    BY <1>1
  <2>2. /\ line[(c - 1) + 1] \in S
        /\ SubSeq(line, 1, (c - 1) + 1) = Append(SubSeq(line, 1, c - 1), line[(c - 1) + 1])
    BY <2>1, UpToNext
  <2> QED BY <1>4, <2>1, <2>2
<1>6. line = upto \o after
  <2>1. 1 \in 1..(Len(line) + 1) /\ c \in (1 - 1)..Len(line) /\ n \in c..Len(line)
    BY <1>1
  <2>2. SubSeq(line, 1, c) \o SubSeq(line, c + 1, n) = SubSeq(line, 1, n)
    BY <2>1, ConcatAdjacentSubSeq
  <2> QED BY <1>1, <1>4, <2>2, SubSeqFull
<1>7. upto \in Seq(S)
  BY <1>2, <1>5, Appended
<1>8. Often(before, word) \in Nat /\ Often(after, word) \in Nat
  BY <1>2, <1>3, OftenIsANumber
<1>9. Often(upto, word) = Often(before, word) + (IF new = word THEN 1 ELSE 0)
  <2>1. \A some \in Seq(S), end \in S :
          Often(Append(some, end), word) = Often(some, word) + (IF end = word THEN 1 ELSE 0)
    BY OftenOfAppended
  <2> QED BY <1>2, <1>5, <2>1, Zenon
<1>10. Often(upto \o after, word) = Often(upto, word) + Often(after, word)
  BY <1>3, <1>7, OftenOfBoth
<1> QED BY <1>2, <1>3, <1>4, <1>6, <1>8, <1>9, <1>10 DEF IsAround

LEMMA OftenOfOne ==
  ASSUME NEW S, NEW one \in S, NEW word
  PROVE  <<one>> \in Seq(S) /\ Often(<<one>>, word) = IF one = word THEN 1 ELSE 0
<1>1. PICK nothing \in Seq(S) : nothing = <<>>
  <2>1. <<>> \in Seq(S)
    BY EmptySeq
  <2> QED BY <2>1, Zenon
<1>2. Append(nothing, one) = <<one>>
  BY <1>1
<1>3. Often(nothing, word) = 0
  BY <1>1, OftenOfNothing
<1>4. Often(Append(nothing, one), word) = Often(nothing, word) + (IF one = word THEN 1 ELSE 0)
  BY OftenOfAppended
<1>5. <<one>> \in Seq(S)
  OBVIOUS
<1> QED BY <1>2, <1>3, <1>4, <1>5

(* Names of countries have no other word.                                  *)
LEMMA OftenOfCountries ==
  ASSUME NEW word, word \notin CountryNames, NEW line,
         line \in {<<name>> : name \in CountryNames}
  PROVE  Often(line, word) = 0
<1>1. PICK name \in CountryNames : line = <<name>>
  OBVIOUS
<1>2. name # word
  OBVIOUS
<1>3. Often(<<name>>, word) = IF name = word THEN 1 ELSE 0
  BY OftenOfOne
<1> QED BY <1>1, <1>2, <1>3

(* The recipient's own lines have an address's words.                      *)
LEMMA CountOfLines ==
  ASSUME NEW S, NEW address \in Seq(Seq(S)), ~has_non_recipient_address_line(address), NEW word
  PROVE  CountIn(Lines(address), word) = CountIn(address, word)
<1>1. PICK chosen : chosen = {line \in ToSet(address) : line # <<>>}
  OBVIOUS
<1>2. PICK written : written = Where(address, chosen)
  OBVIOUS
<1>3. written \in Seq(Seq(S)) /\ ToSet(written) = ToSet(address) \cap chosen
  BY <1>2, WhereItems
<1>4. written = WrittenLines(address)
  BY <1>1, <1>2 DEF WrittenLines
<1>5. Clean(written)
  <2>1. \A line \in ToSet(address) : ~IsReturnAddress(line) /\ ~IsLabel(line)
    BY DEF has_non_recipient_address_line
  <2>2. \A k \in 1..Len(written) : written[k] \in ToSet(written)
    BY <1>3, ElementsOf
  <2> QED BY <1>3, <2>1, <2>2 DEF Clean
<1>6. RecipientLines(written) = written
  BY <1>3, <1>5, RecipientLinesAre
<1>7. CountIn(address, word) = CountIn(written, word)
  <2>1. PICK n \in Nat : n = Len(address)
    BY LenProperties
  <2>2. PICK q \in 0..Len(address) : q = 0
    BY <2>1
  <2>3. TakesAllBut(address, chosen, q, word)
    <3>1. \A k \in 1..Len(address) : address[k] \in ToSet(address)
      BY ElementsOf
    <3>2. Often(<<>>, word) = 0
      BY OftenOfNothing
    <3> QED BY <1>1, <2>2, <3>1, <3>2 DEF TakesAllBut
  <2>4. CountIn(address, word)
          = CountIn(Where(address, chosen), word) + (IF q = 0 THEN 0 ELSE Often(address[q], word))
    BY <2>3, CountOfWhere
  <2>5. CountIn(written, word) \in Nat
    <3>1. <<>> \in Seq(S)
      BY EmptySeq
    <3> QED BY <1>3, <3>1, CountOfAppended
  <2> QED BY <1>2, <2>2, <2>4, <2>5
<1>8. CASE written # <<>>
  BY <1>4, <1>6, <1>7, <1>8 DEF Lines
<1>9. CASE written = <<>>
  <2>1. Lines(address) = <<<<>>>>
    BY <1>4, <1>6, <1>9 DEF Lines
  <2>2. PICK nothing \in Seq(Seq(S)), line \in Seq(S) : nothing = <<>> /\ line = <<>>
    <3>1. <<>> \in Seq(S) /\ <<>> \in Seq(Seq(S))
      BY EmptySeq
    <3> QED BY <3>1, Zenon
  <2>3. Append(nothing, line) = <<<<>>>>
    BY <2>2
  <2>4. CountIn(Append(nothing, line), word) = CountIn(nothing, word) + Often(line, word)
    BY CountOfAppended
  <2>5. CountIn(nothing, word) = 0 /\ Often(line, word) = 0
    BY <2>2, CountOfNothing, OftenOfNothing, Zenon
  <2>6. CountIn(<<<<>>>>, word) = 0
    BY <2>3, <2>4, <2>5
  <2> QED BY <1>7, <1>9, <2>1, <2>2, <2>5, <2>6
<1> QED BY <1>8, <1>9

(* Abroad the last line changes, from a name of the country to another.    *)
LEMMA CountAbroad ==
  ASSUME NEW S, Range(CanonicalName) \subseteq S, NEW address \in Seq(Seq(S)), international(address),
         NEW word, word \notin CountryNames
  PROVE  CountIn(normalised_lines(address), word) = CountIn(Lines(address), word)
<1>1. PICK lines \in Seq(Seq(S)) : lines = Lines(address) /\ Len(lines) >= 1
  BY LinesAre DEF AreLines
<1>2. PICK n \in Nat : n = Len(lines) /\ n >= 1
  BY <1>1, LenProperties
<1>3. lines[n] \in {<<name>> : name \in DOMAIN CanonicalName}
  BY <1>1, <1>2, CountriesAre DEF international, country, last_line, Last
<1>4. PICK front, last : front = SubSeq(lines, 1, n - 1) /\ last = lines[n]
  OBVIOUS
<1>5. front \in Seq(Seq(S)) /\ last \in Seq(S) /\ lines = Append(front, last)
  <2>1. n - 1 \in Nat /\ n - 1 < Len(lines) /\ (n - 1) + 1 = n
    BY <1>2
  <2>2. /\ SubSeq(lines, 1, n - 1) \in Seq(Seq(S)) /\ lines[(n - 1) + 1] \in Seq(S)
        /\ SubSeq(lines, 1, (n - 1) + 1) = Append(SubSeq(lines, 1, n - 1), lines[(n - 1) + 1])
    BY <2>1, UpToNext
  <2> QED BY <1>2, <1>4, <2>1, <2>2, SubSeqFull
<1>6. PICK foreign \in Seq(S) :
        foreign = <<country(address)>> /\ foreign \in {<<name>> : name \in DOMAIN CanonicalName}
  <2>1. country(address) \in Range(CanonicalName)
    BY CountriesAre DEF international, country
  <2>2. country(address) \in S /\ country(address) \in DOMAIN CanonicalName
    BY <2>1, WordsAssumption
  <2>3. <<country(address)>> \in Seq(S)
    BY <2>2
  <2> QED BY <2>2, <2>3
<1>7. normalised_lines(address) = Append(front, foreign)
  <2>1. normalised_lines(address) = [lines EXCEPT ![Len(lines)] = foreign]
    BY <1>1, <1>6, Zenon DEF normalised_lines, InCountry
  <2>2. PICK m \in Nat : m = Len(front)
    BY <1>5, LenProperties
  <2>3. m + 1 = n
    BY <1>2, <1>5, <2>2, AppendProperties
  <2>4. [lines EXCEPT ![n] = foreign] = Append(front, foreign)
    <3>1. PICK one, other : one = [lines EXCEPT ![n] = foreign] /\ other = Append(front, foreign)
      OBVIOUS
    <3>2. one \in Seq(Seq(S)) /\ Len(one) = n /\ \A k \in 1..n : one[k] = IF k = n THEN foreign ELSE lines[k]
      BY <1>2, <1>6, <3>1, ExceptSeq
    <3>3. /\ other \in Seq(Seq(S)) /\ Len(other) = m + 1 /\ other[m + 1] = foreign
          /\ \A k \in 1..m : other[k] = front[k]
      BY <1>5, <2>2, <3>1, Appended
    <3>4. \A k \in 1..m : lines[k] = front[k]
      BY <1>5, <2>2, Appended
    <3>5. ASSUME NEW k \in 1..n PROVE one[k] = other[k]
      <4>1. CASE k = n
        BY <2>3, <3>2, <3>3, <4>1
      <4>2. CASE k # n
        <5>1. k \in 1..m
          BY <2>3, <4>2
        <5> QED BY <3>2, <3>3, <3>4, <4>2, <5>1
      <4> QED BY <4>1, <4>2
    <3>6. one = other
      <4>1. Len(one) = Len(other) /\ \A k \in 1..Len(one) : one[k] = other[k]
        BY <2>3, <3>2, <3>3, <3>5
      <4> QED BY <3>2, <3>3, <4>1, SeqEqual
    <3> QED BY <3>1, <3>6
  <2> QED BY <1>2, <2>1, <2>4
<1>8. Often(last, word) = 0 /\ Often(foreign, word) = 0
  <2>1. last \in {<<name>> : name \in CountryNames} /\ foreign \in {<<name>> : name \in CountryNames}
    BY <1>3, <1>4, <1>6 DEF CountryNames
  <2> QED BY <2>1, OftenOfCountries
<1>9. CountIn(Append(front, last), word) = CountIn(front, word) + Often(last, word)
  BY <1>5, CountOfAppended
<1>10. CountIn(Append(front, foreign), word) = CountIn(front, word) + Often(foreign, word)
  BY <1>5, CountOfAppended
<1> QED BY <1>1, <1>5, <1>7, <1>8, <1>9, <1>10

(* Of the lines that remain under a postcode, and the line it is in.       *)
OnlyCode(lines, q) ==
  /\ q \in 1..Len(lines) /\ HasCode(lines[q])
  /\ \A k \in 1..Len(lines) : k # q => ~HasCode(lines[k])

Kept(lines) ==
  {line \in ToSet(lines) :
     line # <<>> /\ ~HasCode(line) /\ line \notin {<<name>> : name \in LeftOut}}

LEMMA CountOfKept ==
  ASSUME NEW S, NEW lines \in Seq(Seq(S)), NEW q, OnlyCode(lines, q),
         NEW word, word \notin CountryNames
  PROVE  /\ Where(lines, Kept(lines)) \in Seq(Seq(S))
         /\ CountIn(lines, word) = CountIn(Where(lines, Kept(lines)), word) + Often(lines[q], word)
<1>1. PICK n \in Nat : n = Len(lines)
  BY LenProperties
<1>2. q \in 1..n /\ q \in 0..Len(lines) /\ q # 0
  BY <1>1 DEF OnlyCode
<1>3. PICK chosen : chosen = Kept(lines)
  OBVIOUS
<1>4. TakesAllBut(lines, chosen, q, word)
  <2>1. lines[q] \notin chosen
    BY <1>3 DEF OnlyCode, Kept
  <2>2. ASSUME NEW k \in 1..Len(lines), k # q
        PROVE  lines[k] \in chosen \/ Often(lines[k], word) = 0
    <3>1. lines[k] \in ToSet(lines) /\ ~HasCode(lines[k])
      BY <2>2, ElementsOf DEF OnlyCode
    <3>2. CASE lines[k] = <<>>
      BY <3>2, OftenOfNothing
    <3>3. CASE lines[k] \in {<<name>> : name \in LeftOut}
      <4>1. lines[k] \in {<<name>> : name \in CountryNames}
        BY <3>3 DEF CountryNames
      <4> QED BY <4>1, OftenOfCountries
    <3>4. CASE lines[k] # <<>> /\ lines[k] \notin {<<name>> : name \in LeftOut}
      BY <1>3, <3>1, <3>4 DEF Kept
    <3> QED BY <3>2, <3>3, <3>4
  <2> QED BY <2>1, <2>2, Zenon DEF TakesAllBut
<1>5. CountIn(lines, word)
        = CountIn(Where(lines, chosen), word) + (IF q = 0 THEN 0 ELSE Often(lines[q], word))
  BY <1>2, <1>4, CountOfWhere
<1>6. Where(lines, chosen) \in Seq(Seq(S))
  BY WhereItems
<1> QED BY <1>2, <1>3, <1>5, <1>6

(* At home the words of the line with the postcode are the postcode and    *)
(* the town, if that is beside it.                                         *)
BesideOrBelow(lines, q, code, town, next) ==
  /\ town # <<>>
  /\ code = lines[q][CodeAt(lines[q])]
  /\ \/ /\ next = 0
        /\ \/ town = SubSeq(lines[q], 1, CodeAt(lines[q]) - 1)
           \/ town = SubSeq(lines[q], CodeAt(lines[q]) + 1, Len(lines[q]))
     \/ /\ next = q + 1 /\ q < Len(lines) /\ town = lines[q + 1]
        /\ ~IsTown(SubSeq(lines[q], 1, CodeAt(lines[q]) - 1))
        /\ ~IsTown(SubSeq(lines[q], CodeAt(lines[q]) + 1, Len(lines[q])))

LEMMA PlacedAtHome ==
  ASSUME NEW S, NEW address \in Seq(Seq(S)), NEW lines, lines = Lines(address),
         ~international(address), has_valid_local_address(address), OnePostcode(address)
  PROVE  \E q, code, town, next :
           /\ OnlyCode(lines, q) /\ Len(lines[q]) <= 2
           /\ Town(lines) = [town |-> town, next |-> next]
           /\ postcode(address) = <<code>> /\ city(address) = town
           /\ BesideOrBelow(lines, q, code, town, next)
<1>1. lines \in Seq(Seq(S)) /\ DOMAIN lines = 1..Len(lines)
  <2>1. lines \in Seq(Seq(S))
    BY LinesAre DEF AreLines
  <2> QED BY <2>1, LenProperties
<1>2. PICK q \in 1..Len(lines) : PostcodeLines(lines) = {q} /\ Len(lines[q]) <= 2
  <2>1. \E n \in PostcodeLines(lines) : PostcodeLines(lines) = {n} /\ Len(lines[n]) <= 2
    BY DEF OnePostcode
  <2>2. PostcodeLines(lines) \subseteq 1..Len(lines)
    BY <1>1 DEF PostcodeLines
  <2> QED BY <2>1, <2>2
<1>3. OnlyCode(lines, q)
  BY <1>1, <1>2 DEF OnlyCode, PostcodeLines
<1>4. Max({q}) = q /\ Min({q}) = q
  <2>1. PICK n \in Nat : n = Len(lines) /\ q \in 1..n
    BY <1>1, LenProperties
  <2>2. {q} \subseteq 1..n /\ {q} # {}
    BY <2>1
  <2>3. Max({q}) \in {q} /\ Min({q}) \in {q}
    BY <2>2, LastPlace, LeastPlace
  <2> QED BY <2>3
<1>5. PICK code : code = lines[q][CodeAt(lines[q])]
  OBVIOUS
<1>6. postcode(address) = <<code>>
  <2>1. PostcodeLines(lines) # {}
    BY <1>2
  <2>2. postcode(address) = <<lines[Max(PostcodeLines(lines))][CodeAt(lines[Max(PostcodeLines(lines))])]>>
    BY <2>1, Zenon DEF postcode
  <2> QED BY <1>2, <1>4, <1>5, <2>2
<1>7. city(address) = Town(lines).town /\ city(address) # <<>>
  BY Zenon DEF city, has_valid_local_address, None
<1>8. PICK towns : towns = {n \in PostcodeLines(lines) : TownAt(lines, n) # NoTown}
  OBVIOUS
<1>9. Town(lines) = IF towns = {} THEN NoTown ELSE TownAt(lines, Min(towns))
  BY <1>8, Zenon DEF Town
<1>10. towns = {q}
  <2>1. NoTown.town = <<>>
    BY DEF NoTown, None
  <2> QED BY <1>2, <1>7, <1>8, <1>9, <2>1
<1>11. Town(lines) = TownAt(lines, q) /\ TownAt(lines, q) # NoTown
  <2>1. q \in towns
    BY <1>10
  <2> QED BY <1>4, <1>8, <1>9, <1>10, <2>1
<1>12. PICK before, after : /\ before = SubSeq(lines[q], 1, CodeAt(lines[q]) - 1)
                            /\ after = SubSeq(lines[q], CodeAt(lines[q]) + 1, Len(lines[q]))
  OBVIOUS
<1>13. TownAt(lines, q)
         = IF IsTown(before) THEN [town |-> before, next |-> 0]
           ELSE IF IsTown(after) THEN [town |-> after, next |-> 0]
           ELSE IF q < Len(lines) /\ IsTown(lines[q + 1])
                THEN [town |-> lines[q + 1], next |-> q + 1]
           ELSE NoTown
  BY <1>12, Zenon DEF TownAt
<1>14. PICK found : found = TownAt(lines, q)
  OBVIOUS
<1>15. \/ found = [town |-> before, next |-> 0]
       \/ found = [town |-> after, next |-> 0]
       \/ /\ found = [town |-> lines[q + 1], next |-> q + 1] /\ q < Len(lines)
          /\ ~IsTown(before) /\ ~IsTown(after)
  BY <1>11, <1>13, <1>14
<1>16. PICK town, next : found = [town |-> town, next |-> next] /\ town = found.town /\ next = found.next
  <2>1. found = [town |-> found.town, next |-> found.next]
    BY <1>15
  <2> QED BY <2>1
<1>17. BesideOrBelow(lines, q, code, town, next)
  <2>1. town # <<>>
    BY <1>7, <1>11, <1>14, <1>16
  <2>2. \/ next = 0 /\ (town = before \/ town = after)
        \/ next = q + 1 /\ q < Len(lines) /\ town = lines[q + 1] /\ ~IsTown(before) /\ ~IsTown(after)
    BY <1>15, <1>16
  <2> QED BY <1>5, <1>12, <2>1, <2>2, Zenon DEF BesideOrBelow
<1> QED BY <1>2, <1>3, <1>6, <1>7, <1>11, <1>14, <1>16, <1>17

LEMMA CountAtHome ==
  ASSUME NEW S, NEW address \in Seq(Seq(S)), ~international(address),
         has_valid_local_address(address), OnePostcode(address), has_enough_lines(address),
         NEW word, word \notin CountryNames
  PROVE  CountIn(normalised_lines(address), word) = CountIn(Lines(address), word)
<1>1. PICK lines \in Seq(Seq(S)) : lines = Lines(address)
  BY LinesAre DEF AreLines
<1>2. PICK q, code, town, next :
        /\ q \in 1..Len(lines) /\ OnlyCode(lines, q) /\ Len(lines[q]) <= 2
        /\ Town(lines) = [town |-> town, next |-> next]
        /\ postcode(address) = <<code>> /\ city(address) = town
        /\ BesideOrBelow(lines, q, code, town, next)
  BY <1>1, PlacedAtHome DEF OnlyCode
<1>3. PICK line \in Seq(S) : line = lines[q] /\ HasCode(line) /\ Len(line) <= 2
  BY <1>2, ElementOfSeq DEF OnlyCode
<1>4. PICK c \in 1..Len(line) : c = CodeAt(line) /\ line[c] \in Postcodes \cap S
  BY <1>3, CodesAre
<1>5. PICK before, after : before = SubSeq(line, 1, c - 1) /\ after = SubSeq(line, c + 1, Len(line))
  OBVIOUS
<1>6. /\ before \in Seq(S) /\ after \in Seq(S)
      /\ Often(before, word) \in Nat /\ Often(after, word) \in Nat
      /\ Often(line, word) = Often(before, word) + (IF line[c] = word THEN 1 ELSE 0)
                               + Often(after, word)
  <2>1. IsAround(line, c, before, after, word, S)
    BY <1>5, OftenAround
  <2> QED BY <2>1, Zenon DEF IsAround
<1>7. code = line[c] /\ code \in S /\ town # <<>>
  BY <1>2, <1>3, <1>4 DEF BesideOrBelow
<1>8. \/ next = 0 /\ (town = before \/ town = after)
      \/ /\ next = q + 1 /\ q < Len(lines) /\ town = lines[q + 1]
         /\ ~IsTown(before) /\ ~IsTown(after)
  BY <1>2, <1>3, <1>4, <1>5 DEF BesideOrBelow
<1>9. PICK m \in Nat : m = Len(line) /\ m <= 2 /\ c \in 1..m
  BY <1>3, LenProperties
<1>10. town \in Seq(S)
  <2>1. q < Len(lines) => q + 1 \in 1..Len(lines)
    BY <1>2
  <2>2. q < Len(lines) => lines[q + 1] \in Seq(S)
    BY <2>1, ElementOfSeq
  <2> QED BY <1>6, <1>8, <2>2
<1>11. PICK others : others = WithoutTown(lines)
  OBVIOUS
<1>12. /\ others \in Seq(Seq(S)) /\ OnlyCode(others, q) /\ others[q] = line
       /\ CountIn(lines, word) = CountIn(others, word) + (IF next = 0 THEN 0 ELSE Often(town, word))
  <2>1. CASE next = 0
    <3>1. others = lines
      BY <1>2, <1>11, <2>1 DEF WithoutTown
    <3>2. CountIn(lines, word) \in Nat
      BY <1>3, CountOfAppended
    <3> QED BY <1>2, <1>3, <2>1, <3>1, <3>2
  <2>2. CASE next # 0
    <3>1. next = q + 1 /\ q < Len(lines) /\ town = lines[next] /\ next \in 1..Len(lines)
      BY <1>2, <1>8, <2>2
    <3>2. others = RemoveAt(lines, next)
      BY <1>2, <1>11, <2>2 DEF WithoutTown
    <3>3. PICK n \in Nat : n = Len(lines)
      BY LenProperties
    <3>4. /\ others \in Seq(Seq(S)) /\ Len(others) = n - 1
          /\ \A k \in 1..(n - 1) : others[k] = IF k < next THEN lines[k] ELSE lines[k + 1]
      <4>1. IsWithout(RemoveAt(lines, next), lines, next, Seq(S))
        BY <3>1, IsWithoutOne
      <4>2. IsWithout(others, lines, next, Seq(S))
        BY <3>2, <4>1
      <4> QED BY <3>3, <4>2 DEF IsWithout
    <3>5. q \in 1..(n - 1) /\ q < next
      BY <1>2, <3>1, <3>3
    <3>6. others[q] = lines[q]
      BY <3>4, <3>5
    <3>7. OnlyCode(others, q)
      <4>1. ASSUME NEW k \in 1..(n - 1), k # q PROVE ~HasCode(others[k])
        <5>1. PICK j \in 1..n : j # q /\ others[k] = lines[j]
          <6>1. CASE k < next
            BY <3>4, <4>1, <6>1
          <6>2. CASE ~(k < next)
            <7>1. k + 1 \in 1..n /\ k + 1 # q
              BY <3>1, <3>5, <4>1, <6>2
            <7> QED BY <3>4, <6>2, <7>1
          <6> QED BY <6>1, <6>2
        <5> QED BY <1>2, <3>3, <5>1 DEF OnlyCode
      <4> QED BY <1>2, <3>4, <3>5, <3>6, <4>1 DEF OnlyCode
    <3>8. CountIn(lines, word) = CountIn(RemoveAt(lines, next), word) + Often(lines[next], word)
      BY <3>1, CountAround
    <3> QED BY <1>3, <2>2, <3>1, <3>2, <3>4, <3>6, <3>7, <3>8
  <2> QED BY <2>1, <2>2
<1>13. PICK rest \in Seq(Seq(S)) :
         /\ rest = Remaining(lines)
         /\ CountIn(others, word) = CountIn(rest, word) + Often(line, word)
  <2>1. PICK rest : rest = Where(others, Kept(others))
    OBVIOUS
  <2>2. rest = Remaining(lines)
    BY <1>11, <2>1, Zenon DEF Remaining, Kept
  <2>3. rest \in Seq(Seq(S)) /\ CountIn(others, word) = CountIn(rest, word) + Often(line, word)
    BY <1>12, <2>1, CountOfKept
  <2> QED BY <2>2, <2>3
<1>14. PICK given_words : given_words = <<code>> \o town
  OBVIOUS
<1>15. /\ given_words \in Seq(S) /\ Often(town, word) \in Nat
       /\ Often(given_words, word) = (IF code = word THEN 1 ELSE 0) + Often(town, word)
  <2>1. PICK one : one = <<code>>
    OBVIOUS
  <2>2. one \in Seq(S) /\ Often(one, word) = IF code = word THEN 1 ELSE 0
    BY <1>7, <2>1, OftenOfOne
  <2>3. one \o town \in Seq(S)
    BY <1>10, <2>2, ConcatProperties
  <2>4. Often(one \o town, word) = Often(one, word) + Often(town, word)
    BY <1>10, <2>2, OftenOfBoth
  <2>5. Often(town, word) \in Nat
    BY <1>10, OftenIsANumber
  <2> QED BY <1>14, <2>1, <2>2, <2>3, <2>4, <2>5
<1>16. normalised_lines(address) = Append(rest, given_words)
  <2>1. normalised_lines(address) = Append(rest, <<code>> \o (IF rest = <<>> THEN <<>> ELSE town))
    BY <1>1, <1>2, <1>13, Zenon DEF normalised_lines
  <2>2. rest # <<>>
    <3>1. ASSUME rest = <<>> PROVE FALSE
      <4>1. PICK nothing \in Seq(S) : nothing = <<>>
        <5>1. <<>> \in Seq(S)
          BY EmptySeq
        <5> QED BY <5>1, Zenon
      <4>2. PICK last : last = <<code>> \o nothing
        OBVIOUS
      <4>3. last \in Seq(S)
        <5>1. <<code>> \in Seq(S)
          BY <1>7
        <5> QED BY <4>2, <5>1, ConcatProperties
      <4>4. normalised_lines(address) = Append(rest, last)
        BY <2>1, <3>1, <4>1, <4>2
      <4>5. Len(Append(rest, last)) = Len(rest) + 1
        BY <4>3, Appended
      <4>6. Len(normalised_lines(address)) = 1
        BY <3>1, <4>4, <4>5, EmptySeq
      <4> QED BY <4>6, AddressAssumption DEF has_enough_lines, line_count
    <3> QED BY <3>1
  <2> QED BY <1>14, <2>1, <2>2
<1>17. CountIn(rest, word) \in Nat /\ CountIn(Append(rest, given_words), word)
         = CountIn(rest, word) + Often(given_words, word)
  BY <1>15, CountOfAppended
<1>18. Often(<<>>, word) = 0
  BY OftenOfNothing
<1>19. CASE next = 0
  <2>1. CASE town = before
    <3>1. after = <<>>
      <4>1. c # 1
        <5>1. SubSeq(line, 1, 0) = <<>>
          BY SubSeqEmpty
        <5> QED BY <1>5, <1>7, <2>1, <5>1
      <4>2. m < c + 1 /\ c + 1 \in Int
        BY <1>9, <4>1
      <4> QED BY <1>5, <1>9, <4>2, SubSeqEmpty
    <3>2. Often(line, word) = Often(given_words, word)
      BY <1>6, <1>7, <1>15, <1>18, <2>1, <3>1
    <3> QED BY <1>1, <1>12, <1>13, <1>15, <1>16, <1>17, <1>19, <3>2
  <2>2. CASE town = after
    <3>1. before = <<>>
      <4>1. ~(m < c + 1)
        <5>1. m < c + 1 => SubSeq(line, c + 1, m) = <<>>
          BY <1>9, SubSeqEmpty
        <5> QED BY <1>5, <1>7, <1>9, <2>2, <5>1
      <4>2. c - 1 < 1 /\ c - 1 \in Int
        BY <1>9, <4>1
      <4> QED BY <1>5, <4>2, SubSeqEmpty
    <3>2. Often(line, word) = Often(given_words, word)
      BY <1>6, <1>7, <1>15, <1>18, <2>2, <3>1
    <3> QED BY <1>1, <1>12, <1>13, <1>15, <1>16, <1>17, <1>19, <3>2
  <2> QED BY <1>2, <1>8, <1>19, <2>1, <2>2
<1>20. CASE next # 0
  <2>1. ~IsTown(before) /\ ~IsTown(after)
    BY <1>8, <1>20
  <2>2. ASSUME NEW part, ~IsTown(part) PROVE Often(part, word) = 0
    <3>1. CASE part = <<>>
      BY <1>18, <3>1
    <3>2. CASE part \in {<<name>> : name \in CountryNames}
      BY <3>2, OftenOfCountries
    <3>3. part = <<>> \/ part \in {<<name>> : name \in CountryNames}
      BY <2>2 DEF IsTown, IsCountry, CountryNames
    <3> QED BY <3>1, <3>2, <3>3
  <2>3. Often(before, word) = 0 /\ Often(after, word) = 0
    BY <2>1, <2>2
  <2>4. Often(line, word) + Often(town, word) = Often(given_words, word)
    BY <1>6, <1>7, <1>15, <2>3
  <2> QED BY <1>1, <1>6, <1>12, <1>13, <1>15, <1>16, <1>17, <1>20, <2>3, <2>4
<1> QED BY <1>19, <1>20

(* What an address comes to has its words.                                 *)
LEMMA WholeOut ==
  ASSUME NEW S, Range(CanonicalName) \subseteq S, NEW address \in Seq(Seq(S)),
         ~has_non_recipient_address_line(address), has_enough_lines(address),
         has_valid_local_address(address) => OnePostcode(address),
         NEW word, word \notin CountryNames
  PROVE  CountIn(normalised_lines(address), word) = CountIn(address, word)
<1>1. CountIn(Lines(address), word) = CountIn(address, word)
  BY CountOfLines
<1>2. CASE international(address)
  BY <1>1, <1>2, CountAbroad
<1>3. CASE ~international(address) /\ has_valid_local_address(address)
  BY <1>1, <1>3, CountAtHome
<1>4. CASE ~international(address) /\ ~has_valid_local_address(address)
  <2>1. normalised_lines(address) = Lines(address)
    BY <1>4, Zenon DEF normalised_lines
  <2> QED BY <1>1, <2>1
<1> QED BY <1>2, <1>3, <1>4

LEMMA NormalForms ==
  AddressInv /\ valid(given) =>
    normalised_lines(raw) \in {normalised_lines(given), normalised_lines(normalised_lines(given))}
<1> SUFFICES ASSUME AddressInv, valid(given)
    PROVE  normalised_lines(raw)
             \in {normalised_lines(given), normalised_lines(normalised_lines(given))}
  OBVIOUS
<1>1. PICK S : S = AllWords /\ Range(CanonicalName) \subseteq S
  BY DEF AllWords
<1>2. given \in Seq(Seq(S))
  BY <1>1 DEF AddressInv
<1>3. PICK normal \in Seq(Seq(S)) : normal = normalised_lines(given)
  <2>1. FormOf(given, S)
    BY <1>1, <1>2, FormsStay
  <2> QED BY <2>1, Zenon DEF FormOf, AreLines
<1>4. line_count(given) <= MAX_LINES
  <2>1. Len(normal) \in Nat /\ ~(Len(normal) > MAX_LINES)
    BY <1>3, LenProperties DEF valid, has_too_many_lines, line_count
  <2> QED BY <1>3, <2>1, AddressAssumption DEF line_count
<1>5. CASE ~stored
  BY <1>5 DEF AddressInv
<1>6. CASE stored
  BY <1>4, <1>6, SecondForm
<1> QED BY <1>5, <1>6 DEF AddressInv

(* The second normal form has the words of the first.                      *)
LEMMA SecondIsWhole ==
  ASSUME NEW S, Range(CanonicalName) \subseteq S, NEW address \in Seq(Seq(S)),
         NEW word, word \notin CountryNames
  PROVE  CountIn(normalised_lines(normalised_lines(address)), word)
           = CountIn(normalised_lines(address), word)
<1>1. PICK normal : normal = normalised_lines(address)
  OBVIOUS
<1>2. FormOf(address, S)
  BY FormsStay
<1>3. AreLines(normal, S) /\ Lines(normal) = normal
  BY <1>1, <1>2, Zenon DEF FormOf
<1>4. normal \in Seq(Seq(S))
  BY <1>3 DEF AreLines
<1>5. CASE international(normal)
  BY <1>1, <1>3, <1>4, <1>5, CountAbroad
<1>6. CASE ~international(normal)
  <2>1. country(address) = country_NL /\ country(normal) = country_NL
    BY <1>1, <1>2, <1>6, Zenon DEF FormOf, international
  <2>2. Again(normal, country(address))
    BY <1>1, <1>2, Zenon DEF FormOf
  <2>3. normalised_lines(normal) = normal
    BY <2>1, <2>2 DEF Again
  <2> QED BY <1>1, <2>3
<1> QED BY <1>5, <1>6

(* However a valid address with one postcode is stored and read, it goes   *)
(* out with every word it was given with, as often                         *)
(* (postal_address.py:285).                                                *)
THEOREM ValidAddressesAlwaysGoOutWhole == AddressSpec => []ValidAddressesGoOutWhole
<1>1. AddressInv => ValidAddressesGoOutWhole
  <2> SUFFICES ASSUME AddressInv, valid(given), OnePostcode(given),
                      NEW word \in ToSet(Words(given)) \ CountryNames
      PROVE    Often(Words(normalised_lines(raw)), word) = Often(Words(given), word)
    BY DEF ValidAddressesGoOutWhole
  <2>1. PICK S : S = AllWords /\ Range(CanonicalName) \subseteq S
    BY DEF AllWords
  <2>2. given \in Seq(Seq(S))
    BY <2>1 DEF AddressInv
  <2>3. normalised_lines(raw) \in {normalised_lines(given), normalised_lines(normalised_lines(given))}
    BY NormalForms
  <2>4. ~has_non_recipient_address_line(given) /\ has_enough_lines(given)
    BY DEF valid
  <2>5. word \notin CountryNames
    OBVIOUS
  <2>6. CountIn(normalised_lines(given), word) = CountIn(given, word)
    BY <2>1, <2>2, <2>4, <2>5, WholeOut
  <2>7. CountIn(normalised_lines(normalised_lines(given)), word) = CountIn(normalised_lines(given), word)
    BY <2>1, <2>2, <2>5, SecondIsWhole
  <2> QED BY <2>3, <2>6, <2>7 DEF CountIn
<1> QED BY <1>1, AddressesInductive, PTL
-----------------------------------------------------------------------------
(* A letter shows its address.  A word is in lines if it is in one.        *)
LEMMA IsThereIfOften ==
  ASSUME NEW S, NEW words \in Seq(S), NEW word
  PROVE  Often(words, word) # 0 <=> word \in ToSet(words)
<1>1. PICK places : places = {n \in DOMAIN words : words[n] = word}
  OBVIOUS
<1>2. IsFiniteSet(places) /\ Often(words, word) = Cardinality(places)
  BY <1>1, OftenIsANumber DEF Often
<1>3. Cardinality(places) = 0 <=> places = {}
  BY <1>2, FS_EmptySet
<1>4. places # {} <=> word \in ToSet(words)
  BY <1>1 DEF ToSet
<1> QED BY <1>2, <1>3, <1>4

LEMMA WordsAreThere ==
  ASSUME NEW S, NEW lines \in Seq(Seq(S)), NEW word
  PROVE  /\ CountIn(lines, word) \in Nat
         /\ CountIn(lines, word) # 0 <=> word \in ToSet(Words(lines))
         /\ \A n \in 1..Len(lines) : word \in ToSet(lines[n]) => CountIn(lines, word) # 0
<1>1. <<>> \in Seq(S)
  BY EmptySeq
<1>2. Words(lines) \in Seq(S) /\ CountIn(lines, word) \in Nat
  BY <1>1, WordsOfAppended, CountOfAppended
<1>3. CountIn(lines, word) # 0 <=> word \in ToSet(Words(lines))
  BY <1>2, IsThereIfOften DEF CountIn
<1>4. ASSUME NEW n \in 1..Len(lines), word \in ToSet(lines[n]) PROVE CountIn(lines, word) # 0
  <2>1. lines[n] \in Seq(S)
    BY ElementOfSeq
  <2>2. Often(lines[n], word) # 0
    BY <1>4, <2>1, IsThereIfOften
  <2>3. /\ Often(lines[n], word) \in Nat /\ CountIn(RemoveAt(lines, n), word) \in Nat
        /\ CountIn(lines, word) = CountIn(RemoveAt(lines, n), word) + Often(lines[n], word)
    BY CountAround
  <2> QED BY <2>2, <2>3
<1> QED BY <1>2, <1>3, <1>4

(* Fewer are taken if one is not chosen.                                   *)
NotAll(list, chosen) == \E k \in 1..Len(list) : list[k] \notin chosen

LEMMA WhereIsShorter ==
  ASSUME NEW S, NEW list \in Seq(S), NEW chosen
  PROVE  /\ Len(Where(list, chosen)) \in Nat
         /\ Len(Where(list, chosen)) <= Len(list)
         /\ NotAll(list, chosen) => Len(Where(list, chosen)) < Len(list)
<1>1. PICK n \in Nat : n = Len(list) /\ \A k \in 1..n : list[k] \in S
  BY LenProperties
<1>2. PICK f \in [0..n -> Seq(S)] :
        /\ f[0] = <<>> /\ Where(list, chosen) = f[n]
        /\ \A k \in 1..n : f[k] = Taken(f[k - 1], list[k], chosen)
  <2>1. \E f \in [0..Len(list) -> Seq(S)] :
           /\ f[0] = <<>>
           /\ \A k \in 1..Len(list) : f[k] = Taken(f[k - 1], list[k], chosen)
           /\ Where(list, chosen) = f[Len(list)]
    BY WhereSteps, Zenon
  <2> QED BY <1>1, <2>1
<1> DEFINE P(k) == /\ Len(f[k]) \in Nat /\ Len(f[k]) <= k
                   /\ \A j \in 1..k : list[j] \notin chosen => Len(f[k]) < k
           T == {k \in 0..n : P(k)}
<1>3. P(0)
  <2>1. Len(f[0]) = 0
    BY <1>2, EmptySeq
  <2> QED BY <2>1
<1>4. ASSUME NEW k \in 0..n, P(k), k < n PROVE P(k + 1)
  <2>1. k + 1 \in 1..n /\ (k + 1) - 1 = k
    BY <1>4
  <2>2. PICK some \in Seq(S), row \in S, m \in Nat :
          some = f[k] /\ row = list[k + 1] /\ m = Len(some)
    <3>1. f[k] \in Seq(S) /\ list[k + 1] \in S
      BY <1>1, <1>2, <2>1
    <3> QED BY <3>1, LenProperties
  <2>3. f[k + 1] = Taken(some, row, chosen)
    BY <1>2, <2>1, <2>2
  <2>4. m <= k /\ \A j \in 1..k : list[j] \notin chosen => m < k
    BY <1>4, <2>2
  <2>5. \A j \in 1..(k + 1) : j \in 1..k \/ j = k + 1
    OBVIOUS
  <2>6. CASE row \in chosen
    <3>1. Len(f[k + 1]) = m + 1
      BY <2>2, <2>3, <2>6, Appended DEF Taken
    <3>2. \A j \in 1..(k + 1) : list[j] \notin chosen => j \in 1..k
      BY <2>2, <2>5, <2>6
    <3> QED BY <2>4, <3>1, <3>2
  <2>7. CASE row \notin chosen
    <3>1. Len(f[k + 1]) = m
      BY <2>2, <2>3, <2>7 DEF Taken
    <3> QED BY <2>4, <3>1
  <2> QED BY <2>6, <2>7
<1>5. 0 \in T /\ \A k \in 0..n : k \in T /\ k < n => k + 1 \in T
  <2> HIDE DEF P
  <2>1. 0 \in 0..n /\ \A k \in 0..n : k < n => k + 1 \in 0..n
    OBVIOUS
  <2> QED BY <1>3, <1>4, <2>1, Zenon
<1>6. \A k \in 0..n : k \in T
  <2> HIDE DEF T
  <2> QED BY <1>5, StepByStep
<1>7. n \in 0..n
  OBVIOUS
<1>8. P(n)
  <2> HIDE DEF P
  <2> QED BY <1>6, <1>7
<1> QED BY <1>1, <1>2, <1>8 DEF NotAll

(* An address has no more lines than are written.                          *)
LEMMA RemainingIsShorter ==
  ASSUME NEW S, NEW lines \in Seq(Seq(S)), PostcodeLines(lines) # {}
  PROVE  Len(Remaining(lines)) \in Nat /\ Len(Remaining(lines)) < Len(lines)
<1>1. PICK others : others = WithoutTown(lines)
  OBVIOUS
<1>2. others \in Seq(Seq(S))
  BY <1>1, WithoutTownAre
<1>3. Remaining(lines) = Where(others, Kept(others))
  BY <1>1, Zenon DEF Remaining, Kept
<1>4. /\ Len(Where(others, Kept(others))) \in Nat
      /\ Len(Where(others, Kept(others))) <= Len(others)
      /\ NotAll(others, Kept(others)) => Len(Where(others, Kept(others))) < Len(others)
  BY <1>2, WhereIsShorter
<1>5. CASE Town(lines).next = 0
  <2>1. others = lines
    BY <1>1, <1>5 DEF WithoutTown
  <2>2. PICK n \in 1..Len(lines) : HasCode(lines[n])
    BY LenProperties DEF PostcodeLines
  <2>3. NotAll(others, Kept(others))
    BY <2>1, <2>2 DEF NotAll, Kept
  <2> QED BY <1>3, <1>4, <2>1, <2>3
<1>6. CASE Town(lines).next # 0
  <2>1. Town(lines).next \in 1..Len(lines)
    <3>1. NoTown.next = 0
      BY DEF NoTown
    <3> QED BY <1>6, <3>1, TownIs DEF FoundTown
  <2>2. PICK i \in 1..Len(lines) : i = Town(lines).next
    BY <2>1
  <2>3. others = RemoveAt(lines, i)
    BY <1>1, <1>6, <2>2 DEF WithoutTown
  <2>4. Len(RemoveAt(lines, i)) = Len(lines) - 1
    BY RemovedAt
  <2>5. Len(lines) \in Nat
    BY LenProperties
  <2> QED BY <1>3, <1>4, <2>3, <2>4, <2>5
<1> QED BY <1>5, <1>6

LEMMA NotTooMany ==
  ASSUME NEW S, Range(CanonicalName) \subseteq S, NEW address \in Seq(Seq(S)), Len(address) <= MAX_LINES,
         ~has_non_recipient_address_line(address)
  PROVE  ~has_too_many_lines(address)
<1>1. PICK lines \in Seq(Seq(S)) : lines = Lines(address) /\ Len(lines) >= 1
  BY LinesAre DEF AreLines
<1>2. Len(lines) \in Nat /\ Len(lines) <= MAX_LINES
  <2>1. PICK chosen : chosen = {line \in ToSet(address) : line # <<>>}
    OBVIOUS
  <2>2. PICK written : written = Where(address, chosen)
    OBVIOUS
  <2>3. /\ written \in Seq(Seq(S)) /\ ToSet(written) = ToSet(address) \cap chosen
        /\ Len(written) <= Len(address)
    BY <2>2, WhereItems, WhereIsShorter
  <2>4. written = WrittenLines(address)
    BY <2>1, <2>2 DEF WrittenLines
  <2>5. Clean(written)
    <3>1. \A line \in ToSet(address) : ~IsReturnAddress(line) /\ ~IsLabel(line)
      BY DEF has_non_recipient_address_line
    <3>2. \A k \in 1..Len(written) : written[k] \in ToSet(written)
      BY <2>3, ElementsOf
    <3> QED BY <2>3, <3>1, <3>2 DEF Clean
  <2>6. RecipientLines(written) = written
    BY <2>3, <2>5, RecipientLinesAre
  <2>7. lines = IF written = <<>> THEN <<<<>>>> ELSE written
    BY <1>1, <2>4, <2>6, Zenon DEF Lines
  <2>8. Len(written) \in Nat /\ Len(address) \in Nat
    BY <2>3, LenProperties
  <2>9. CASE written = <<>>
    <3>1. Len(<<<<>>>>) = 1
      OBVIOUS
    <3> QED BY <2>7, <2>9, <3>1, AddressAssumption
  <2>10. CASE written # <<>>
    <3>1. Len(lines) = Len(written)
      BY <2>7, <2>10
    <3> QED BY <2>3, <2>8, <3>1, AddressAssumption
  <2> QED BY <2>9, <2>10
<1>3. CASE international(address)
  <2>1. PICK name \in S : name = country(address)
    BY <1>3, CountriesAre DEF international, country
  <2>2. normalised_lines(address) = InCountry(lines, name)
    BY <1>1, <1>3, <2>1, Zenon DEF normalised_lines
  <2>3. Len(InCountry(lines, name)) = Len(lines)
    BY <1>1, LinesInCountry
  <2> QED BY <1>2, <2>2, <2>3, AddressAssumption DEF has_too_many_lines, line_count
<1>4. CASE ~international(address) /\ ~has_valid_local_address(address)
  <2>1. normalised_lines(address) = lines
    BY <1>1, <1>4, Zenon DEF normalised_lines
  <2> QED BY <1>2, <2>1, AddressAssumption DEF has_too_many_lines, line_count
<1>5. CASE ~international(address) /\ has_valid_local_address(address)
  <2>1. PICK rest : rest = Remaining(lines)
    OBVIOUS
  <2>2. PICK last : last = postcode(address) \o IF rest = <<>> THEN <<>> ELSE city(address)
    OBVIOUS
  <2>3. normalised_lines(address) = Append(rest, last)
    BY <1>1, <1>5, <2>1, <2>2, Zenon DEF normalised_lines
  <2>4. PostcodeLines(lines) # {}
    <3>1. postcode(address) # None
      BY <1>5 DEF has_valid_local_address
    <3> QED BY <1>1, <3>1 DEF postcode
  <2>5. Len(rest) \in Nat /\ Len(rest) < Len(lines)
    BY <2>1, <2>4, RemainingIsShorter
  <2>6. rest \in Seq(Seq(S))
    BY <2>1, RemainingAre
  <2>7. Len(Append(rest, last)) = Len(rest) + 1
    BY <2>6
  <2> QED BY <1>2, <2>3, <2>5, <2>7, AddressAssumption DEF has_too_many_lines, line_count
<1> QED BY <1>3, <1>4, <1>5

(* The words that stand in the lines of a letter's address.                *)
LetterWords ==
  Range(CanonicalName) \cup UNION {ToSet(Head(entry.data)) : entry \in {other \in AllEntries : other.data # None}}

LineOfData(data) == IF data = None THEN <<>> ELSE Where(Head(data), ToSet(Head(data)) \ {" "})

LEMMA LineIsOfData ==
  ASSUME NEW entries, NEW item
  PROVE  LineOf(DictOf(entries), item) = LineOfData(DataIn(entries, item.key))
<1>1. PICK dict : dict = DictOf(entries)
  OBVIOUS
<1>2. CASE item.key \in DOMAIN dict
  BY <1>1, <1>2, Zenon DEF LineOf, LineOfData, DataIn
<1>3. CASE item.key \notin DOMAIN dict
  BY <1>1, <1>3, Zenon DEF LineOf, LineOfData, DataIn
<1> QED BY <1>2, <1>3

LEMMA GivenLines ==
  ASSUME NEW entries \in GivenValues, NEW key
  PROVE  LineOfData(DataIn(entries, key)) \in Seq(LetterWords)
<1>1. CASE DataIn(entries, key) = None
  <2>1. <<>> \in Seq(LetterWords)
    BY EmptySeq
  <2> QED BY <1>1, <2>1 DEF LineOfData
<1>2. CASE DataIn(entries, key) # None
  <2>1. key \in DOMAIN DictOf(entries) /\ DataIn(entries, key) = DictOf(entries)[key]
    BY <1>2 DEF DataIn
  <2>2. entries \in Seq(ToSet(entries))
    BY ValuesAssumption
  <2>3. PICK k \in 1..Len(entries) : DictOf(entries)[key] = entries[k].data
    BY <2>1, <2>2, LastEntryCounts
  <2>4. PICK entry \in ToSet(entries) : entry.data = DataIn(entries, key)
    <3>1. entries[k] \in ToSet(entries)
      BY <2>2, ElementsOf
    <3> QED BY <2>1, <2>3, <3>1
  <2>5. PICK words : words = Head(entry.data)
    OBVIOUS
  <2>6. words \in Seq(ToSet(words))
    BY <1>2, <2>4, <2>5, ValuesAssumption
  <2>7. ToSet(words) \subseteq LetterWords
    <3>1. entry \in {other \in AllEntries : other.data # None}
      BY <1>2, <2>4 DEF AllEntries
    <3> QED BY <2>5, <3>1 DEF LetterWords
  <2>8. words \in Seq(LetterWords)
    BY <2>6, <2>7, SeqMonotonic
  <2>9. LineOfData(entry.data) = Where(words, ToSet(words) \ {" "})
    BY <1>2, <2>4, <2>5 DEF LineOfData
  <2>10. Where(words, ToSet(words) \ {" "}) \in Seq(LetterWords)
    BY <2>8, WhereItems
  <2> QED BY <2>4, <2>9, <2>10
<1> QED BY <1>1, <1>2

LEMMA LinesNow ==
  ASSUME TemplatesInv
  PROVE  \A item : LineOf(DictOf(_values), item) \in Seq(LetterWords)
<1> TAKE item
<1>1. PICK entries \in GivenValues : entries = given_values
  BY DEF TemplatesInv
<1>2. DataIn(_values, item.key) = DataIn(entries, item.key)
  BY <1>1, ValuesNow
<1> QED BY <1>2, LineIsOfData, GivenLines

(* A template's values have one entry for each key.                        *)
OnePerKey(values) ==
  /\ \E S : values \in Seq(S)
  /\ \A n, m \in DOMAIN values : values[n].item.key = values[m].item.key => n = m

LEMMA ValuesAreOnePerKey == TemplatesInv => OnePerKey(_values)
<1> SUFFICES ASSUME TemplatesInv PROVE OnePerKey(_values)
  OBVIOUS
<1>1. CASE given_values = <<>>
  <2>1. _values = <<>>
    BY <1>1 DEF TemplatesInv
  <2>2. <<>> \in Seq({}) /\ DOMAIN <<>> = {}
    BY EmptySeq
  <2> QED BY <2>1, <2>2 DEF OnePerKey
<1>2. CASE given_values # <<>>
  <2>1. IsNames(made)
    BY NowIsMade
  <2>2. AreValues(_values, made, given_values)
    BY <1>2, <2>1, ValuesAre DEF TemplatesInv
  <2> QED BY <2>2 DEF AreValues, OnePerKey
<1> QED BY <1>1, <1>2

LEMMA SpeltIsThere ==
  ASSUME OnePerKey(_values), NEW item, item \in {entry.item : entry \in ToSet(_values)}
  PROVE  item.key \in DOMAIN DictOf(_values) /\ ValueSpelt(item) = DataIn(_values, item.key)
<1>1. PICK S : _values \in Seq(S)
  BY DEF OnePerKey
<1>2. PICK n \in Nat : n = Len(_values) /\ DOMAIN _values = 1..n
  BY <1>1, LenProperties
<1>3. PICK k \in 1..n : _values[k].item = item
  BY <1>2 DEF ToSet
<1>4. \A j \in 1..n : _values[j].item.key = item.key => j = k
  BY <1>2, <1>3 DEF OnePerKey
<1>5. PICK places : places = {j \in DOMAIN _values : _values[j].item = item}
  OBVIOUS
<1>6. places = {k}
  BY <1>2, <1>3, <1>4, <1>5
<1>7. Max(places) = k
  <2>1. places \subseteq 1..n /\ places # {}
    BY <1>6
  <2>2. Max(places) \in places
    BY <2>1, LastPlace
  <2> QED BY <1>6, <2>2
<1>8. ValueSpelt(item) = _values[k].data
  BY <1>5, <1>6, <1>7, Zenon DEF ValueSpelt
<1>9. item.key \in DOMAIN DictOf(_values)
  BY <1>1, <1>2, <1>3, LastEntryCounts
<1>10. DictOf(_values)[item.key] = _values[k].data
  <2>1. PICK j \in 1..Len(_values) :
          _values[j].item.key = item.key /\ DictOf(_values)[item.key] = _values[j].data
    BY <1>1, <1>9, LastEntryCounts
  <2> QED BY <1>2, <1>4, <2>1
<1> QED BY <1>8, <1>9, <1>10 DEF DataIn

(* One more entry.                                                         *)
LEMMA DataOfAppended ==
  ASSUME NEW S, NEW entries \in Seq(S), NEW new \in S, NEW key
  PROVE  DataIn(Append(entries, new), key)
           = IF key = new.item.key THEN new.data ELSE DataIn(entries, key)
<1>1. PICK n \in Nat : n = Len(entries)
  BY LenProperties
<1>2. PICK more : more = Append(entries, new)
  OBVIOUS
<1>3. /\ more \in Seq(S) /\ Len(more) = n + 1 /\ more[n + 1] = new
      /\ \A k \in 1..n : more[k] = entries[k]
  BY <1>1, <1>2, Appended
<1>4. \A k \in 1..(n + 1) : k \in 1..n \/ k = n + 1
  OBVIOUS
<1>5. CASE key = new.item.key
  <2>1. key \in DOMAIN DictOf(more)
    <3>1. n + 1 \in 1..Len(more)
      BY <1>3
    <3> QED BY <1>3, <1>5, <3>1, LastEntryCounts
  <2>2. PICK k \in 1..(n + 1) :
          /\ DictOf(more)[key] = more[k].data
          /\ \A m \in 1..(n + 1) : more[m].item.key = key => m <= k
    <3>1. \E k \in 1..Len(more) :
            /\ more[k].item.key = key /\ DictOf(more)[key] = more[k].data
            /\ \A m \in 1..Len(more) : more[m].item.key = key => m <= k
      BY <1>3, <2>1, LastEntryCounts
    <3> QED BY <1>3, <3>1
  <2>3. k = n + 1
    <3>1. n + 1 \in 1..(n + 1)
      OBVIOUS
    <3>2. n + 1 <= k
      BY <1>3, <1>5, <2>2, <3>1
    <3> QED BY <3>2
  <2> QED BY <1>2, <1>3, <1>5, <2>1, <2>2, <2>3 DEF DataIn
<1>6. CASE key # new.item.key
  <2>1. CASE key \in DOMAIN DictOf(more)
    <3>1. PICK k \in 1..(n + 1) :
            /\ more[k].item.key = key /\ DictOf(more)[key] = more[k].data
            /\ \A m \in 1..(n + 1) : more[m].item.key = key => m <= k
      <4>1. \E k \in 1..Len(more) :
              /\ more[k].item.key = key /\ DictOf(more)[key] = more[k].data
              /\ \A m \in 1..Len(more) : more[m].item.key = key => m <= k
        BY <1>3, <2>1, LastEntryCounts
      <4> QED BY <1>3, <4>1
    <3>2. k \in 1..n
      BY <1>3, <1>4, <1>6, <3>1
    <3>3. entries[k].item.key = key /\ key \in DOMAIN DictOf(entries)
      BY <1>1, <1>3, <3>1, <3>2, LastEntryCounts
    <3>4. PICK j \in 1..n :
            /\ entries[j].item.key = key /\ DictOf(entries)[key] = entries[j].data
            /\ \A m \in 1..n : entries[m].item.key = key => m <= j
      <4>1. \E j \in 1..Len(entries) :
              /\ entries[j].item.key = key /\ DictOf(entries)[key] = entries[j].data
              /\ \A m \in 1..Len(entries) : entries[m].item.key = key => m <= j
        BY <3>3, LastEntryCounts
      <4> QED BY <1>1, <4>1
    <3>5. k <= j
      BY <3>2, <3>3, <3>4
    <3>6. j <= k
      <4>1. j \in 1..(n + 1) /\ more[j].item.key = key
        BY <1>3, <3>4
      <4> QED BY <3>1, <4>1
    <3>7. j = k
      BY <3>5, <3>6
    <3> QED BY <1>2, <1>3, <1>6, <2>1, <3>1, <3>2, <3>3, <3>4, <3>7 DEF DataIn
  <2>2. CASE key \notin DOMAIN DictOf(more)
    <3>1. ASSUME key \in DOMAIN DictOf(entries) PROVE FALSE
      <4>1. PICK k \in 1..n : entries[k].item.key = key
        BY <1>1, <3>1, LastEntryCounts
      <4>2. k \in 1..Len(more) /\ more[k].item.key = key
        BY <1>3, <4>1
      <4> QED BY <1>3, <2>2, <4>2, LastEntryCounts
    <3> QED BY <1>2, <1>6, <2>2, <3>1 DEF DataIn
  <2> QED BY <2>1, <2>2
<1> QED BY <1>5, <1>6

(* The lines that an address is made of.                                   *)
ShownKeys(last) == Append(Front(address_lines), last)

LEMMA LinesOfTheBlock ==
  /\ MAX_LINES \in Nat /\ MAX_LINES >= 1 /\ DOMAIN address_lines = 1..MAX_LINES
  /\ LastLine = address_lines[MAX_LINES]
  /\ \A item \in ToSet(address_lines) : \E n \in 1..MAX_LINES : item = address_lines[n]
  /\ \A last :
       /\ DOMAIN ShownKeys(last) = 1..MAX_LINES
       /\ ShownKeys(last)[MAX_LINES] = last
       /\ \A n \in 1..MAX_LINES : n # MAX_LINES => ShownKeys(last)[n] = address_lines[n]
<1>1. PICK m \in Nat : m = MAX_LINES /\ m >= 1
  BY AddressAssumption
<1>2. PICK I : I = ToSet(address_lines)
  OBVIOUS
<1>3. address_lines \in Seq(I) /\ Len(address_lines) = m
  BY <1>1, <1>2, TemplatesAssumption
<1>4. DOMAIN address_lines = 1..m
  BY <1>3, LenProperties
<1>5. LastLine = address_lines[m]
  BY <1>3 DEF LastLine, Last
<1>6. ASSUME NEW last
      PROVE  /\ DOMAIN ShownKeys(last) = 1..m /\ ShownKeys(last)[m] = last
             /\ \A n \in 1..m : n # m => ShownKeys(last)[n] = address_lines[n]
  <2>1. PICK front : front = SubSeq(address_lines, 1, m - 1)
    OBVIOUS
  <2>2. /\ 1 \in 1..(Len(address_lines) + 1) /\ m - 1 \in 0..Len(address_lines)
        /\ (m - 1) - 1 + 1 = m - 1
    BY <1>1, <1>3
  <2>3. /\ SubSeq(address_lines, 1, m - 1) \in Seq(I)
        /\ Len(SubSeq(address_lines, 1, m - 1)) = IF 1 <= m - 1 THEN (m - 1) - 1 + 1 ELSE 0
        /\ \A k \in 1..((m - 1) - 1 + 1) :
             SubSeq(address_lines, 1, m - 1)[k] = address_lines[1 + k - 1]
    BY <1>3, <2>2, PartOf
  <2>4. /\ front \in Seq(I) /\ Len(front) = m - 1
        /\ \A k \in 1..(m - 1) : front[k] = address_lines[k]
    BY <1>1, <2>1, <2>2, <2>3
  <2>5. ShownKeys(last) = Append(front, last)
    BY <1>3, <2>1 DEF ShownKeys, Front
  <2>6. PICK J : J = I \cup {last}
    OBVIOUS
  <2>7. front \in Seq(J) /\ last \in J
    BY <2>4, <2>6, SeqMonotonic
  <2>8. PICK keys : keys = Append(front, last)
    OBVIOUS
  <2>9. /\ keys \in Seq(J) /\ Len(keys) = m /\ keys[m] = last
        /\ \A k \in 1..(m - 1) : keys[k] = front[k]
    <3>1. /\ keys \in Seq(J) /\ Len(keys) = Len(front) + 1 /\ keys[Len(front) + 1] = last
          /\ \A k \in 1..Len(front) : keys[k] = front[k]
      BY <2>7, <2>8, Appended
    <3> QED BY <1>1, <2>4, <3>1
  <2>10. DOMAIN keys = 1..m
    BY <2>9, LenProperties
  <2>11. \A n \in 1..m : n # m => n \in 1..(m - 1)
    BY <1>1
  <2> QED BY <2>4, <2>5, <2>8, <2>9, <2>10, <2>11
<1>7. \A item \in ToSet(address_lines) : \E n \in 1..m : item = address_lines[n]
  BY <1>4 DEF ToSet
<1> QED BY <1>1, <1>4, <1>5, <1>6, <1>7

LEMMA PostalAddressIs ==
  ASSUME TemplatesInv
  PROVE  /\ postal_address \in Seq(Seq(LetterWords)) /\ Len(postal_address) <= MAX_LINES
         /\ \A n \in 1..MAX_LINES :
              LET item == ShownKeys(IF LastLine.key \in DOMAIN DictOf(_values)
                                    THEN LastLine ELSE PostcodeItem)[n]
              IN LineOf(DictOf(_values), item) # <<>> =>
                   LineOf(DictOf(_values), item) \in ToSet(postal_address)
<1>1. PICK S, dict : S = LetterWords /\ dict = DictOf(_values)
  OBVIOUS
<1>2. PICK last : last = IF LastLine.key \in DOMAIN dict THEN LastLine ELSE PostcodeItem
  OBVIOUS
<1>3. PICK keys : keys = ShownKeys(last)
  OBVIOUS
<1>4. MAX_LINES \in Nat /\ DOMAIN keys = 1..MAX_LINES
  BY <1>3, LinesOfTheBlock
<1>5. PICK lines : lines = [n \in 1..MAX_LINES |-> LineOf(dict, keys[n])]
  OBVIOUS
<1>6. postal_address = WrittenLines(lines)
  <2>1. postal_address = from_personalisation([n \in DOMAIN keys |-> LineOf(dict, keys[n])])
    BY <1>1, <1>2, <1>3, Zenon DEF postal_address, ShownKeys
  <2> QED BY <1>4, <1>5, <2>1 DEF from_personalisation
<1>7. lines \in Seq(Seq(S)) /\ Len(lines) = MAX_LINES /\ DOMAIN lines = 1..MAX_LINES
  <2>1. \A n \in 1..MAX_LINES : LineOf(dict, keys[n]) \in Seq(S)
    BY <1>1, LinesNow
  <2> QED BY <1>4, <1>5, <2>1
<1>8. PICK chosen : chosen = {line \in ToSet(lines) : line # <<>>}
  OBVIOUS
<1>9. PICK written : written = Where(lines, chosen)
  OBVIOUS
<1>10. /\ written \in Seq(Seq(S)) /\ ToSet(written) = ToSet(lines) \cap chosen
       /\ Len(written) <= Len(lines)
  BY <1>7, <1>9, WhereItems, WhereIsShorter
<1>11. postal_address = written
  BY <1>6, <1>8, <1>9 DEF WrittenLines
<1>12. ASSUME NEW n \in 1..MAX_LINES, LineOf(dict, keys[n]) # <<>>
       PROVE  LineOf(dict, keys[n]) \in ToSet(written)
  <2>1. lines[n] = LineOf(dict, keys[n]) /\ lines[n] \in ToSet(lines)
    BY <1>5, <1>7 DEF ToSet
  <2> QED BY <1>8, <1>10, <1>12, <2>1
<1> QED BY <1>1, <1>2, <1>3, <1>7, <1>10, <1>11, <1>12

(* Which items' words are shown.                                           *)
IsShown(item, dict) ==
  /\ item \in ToSet(Append(address_lines, PostcodeItem))
  /\ item = PostcodeItem =>
       LastLine.key \notin DOMAIN dict /\ (has_enough_lines(postal_address) \/ ValueSpelt(item) # None)
  /\ item = LastLine => has_enough_lines(postal_address) \/ PostcodeItem.key \notin DOMAIN dict

LEMMA ShownItems ==
  ASSUME NEW dict, NEW item, IsShown(item, dict)
  PROVE  item = PostcodeItem \/ item \in ToSet(address_lines)
<1>1. PICK I : I = ToSet(address_lines) \cup {PostcodeItem}
  OBVIOUS
<1>2. address_lines \in Seq(I)
  <2>1. address_lines \in Seq(ToSet(address_lines))
    BY TemplatesAssumption
  <2> QED BY <1>1, <2>1, SeqMonotonic
<1>3. PICK more : more = Append(address_lines, PostcodeItem)
  OBVIOUS
<1>4. PICK m \in Nat : m = Len(address_lines)
  BY <1>2, LenProperties
<1>5. /\ more \in Seq(I) /\ Len(more) = m + 1 /\ more[m + 1] = PostcodeItem
      /\ \A k \in 1..m : more[k] = address_lines[k]
  BY <1>1, <1>2, <1>3, <1>4, Appended
<1>6. PICK n \in 1..(m + 1) : item = more[n]
  <2>1. DOMAIN more = 1..(m + 1)
    BY <1>5, LenProperties
  <2> QED BY <1>3, <2>1 DEF IsShown, ToSet
<1>7. n \in 1..m \/ n = m + 1
  OBVIOUS
<1>8. \A k \in 1..m : address_lines[k] \in ToSet(address_lines)
  BY <1>2, <1>4, ElementsOf
<1> QED BY <1>5, <1>6, <1>7, <1>8

LEMMA ShownWhole ==
  ASSUME TemplatesInv, ~has_non_recipient_address_line(postal_address),
         has_valid_local_address(postal_address) => OnePostcode(postal_address),
         has_enough_lines(postal_address), NEW item, IsShown(item, DictOf(_values)),
         NEW word \in ToSet(LineOf(DictOf(_values), item)), word \notin CountryNames
  PROVE  word \in ToSet(Words(_address_block))
<1>1. PICK S, dict : S = LetterWords /\ dict = DictOf(_values) /\ Range(CanonicalName) \subseteq S
  BY DEF LetterWords
<1>2. PICK last : last = IF LastLine.key \in DOMAIN dict THEN LastLine ELSE PostcodeItem
  OBVIOUS
<1>3. PICK address \in Seq(Seq(S)) : address = postal_address /\ Len(address) <= MAX_LINES
  BY <1>1, PostalAddressIs
<1>4. LineOf(dict, item) # <<>>
  <2>1. ToSet(<<>>) = {}
    BY DEF ToSet
  <2> QED BY <1>1, <2>1
<1>5. PICK n \in 1..MAX_LINES : ShownKeys(last)[n] = item
  <2>1. MAX_LINES \in 1..MAX_LINES
    BY LinesOfTheBlock
  <2>2. CASE item = PostcodeItem
    <3>1. last = item
      BY <1>1, <1>2, <2>2 DEF IsShown
    <3> QED BY <2>1, <3>1, LinesOfTheBlock
  <2>3. CASE item \in ToSet(address_lines)
    <3>1. PICK k \in 1..MAX_LINES : item = address_lines[k]
      BY <2>3, LinesOfTheBlock
    <3>2. CASE k # MAX_LINES
      BY <3>1, <3>2, LinesOfTheBlock
    <3>3. CASE k = MAX_LINES
      <4>1. item = LastLine
        BY <3>1, <3>3, LinesOfTheBlock
      <4>2. LastLine.key \in DOMAIN dict
        BY <1>4, <4>1 DEF LineOf
      <4>3. last = item
        BY <1>2, <4>1, <4>2
      <4> QED BY <2>1, <4>3, LinesOfTheBlock
    <3> QED BY <3>2, <3>3
  <2> QED BY <1>1, <2>2, <2>3, ShownItems
<1>6. PICK line : line = LineOf(dict, item)
  OBVIOUS
<1>7. line \in ToSet(address)
  BY <1>1, <1>2, <1>3, <1>4, <1>5, <1>6, PostalAddressIs
<1>8. PICK k \in 1..Len(address) : address[k] = line
  BY <1>7, LenProperties DEF ToSet
<1>9. CountIn(address, word) # 0
  <2>1. word \in ToSet(address[k])
    BY <1>1, <1>6, <1>8
  <2> QED BY <2>1, WordsAreThere
<1>10. CountIn(normalised_lines(address), word) = CountIn(address, word)
  BY <1>1, <1>3, WholeOut
<1>11. normalised_lines(address) \in Seq(Seq(S))
  <2>1. FormOf(address, S)
    BY <1>1, FormsStay
  <2> QED BY <2>1, Zenon DEF FormOf, AreLines
<1>12. PICK normal \in Seq(Seq(S)) : normal = normalised_lines(address)
  BY <1>11
<1>13. word \in ToSet(Words(normal))
  <2>1. CountIn(normal, word) # 0
    BY <1>9, <1>10, <1>12
  <2> QED BY <2>1, WordsAreThere
<1>14. ~has_too_many_lines(address)
  BY <1>1, <1>3, NotTooMany
<1>15. _address_block = normal
  BY <1>3, <1>12, <1>14, Zenon DEF _address_block
<1> QED BY <1>13, <1>15

(* What the block's lines are of.                                          *)
LEMMA BlockLines ==
  ASSUME TemplatesInv, ~has_enough_lines(postal_address),
         NEW item, IsShown(item, DictOf(_values))
  PROVE  LET dict == DictOf(WithLastLine(_values)) IN
         /\ \A n \in 1..MAX_LINES : LineOf(dict, address_lines[n]) \in Seq(LetterWords)
         /\ \E n \in 1..MAX_LINES : LineOf(dict, address_lines[n]) = LineOf(DictOf(_values), item)
<1>1. PICK spelt : spelt = {entry.item : entry \in ToSet(_values)}
  OBVIOUS
<1>2. PICK more : more = WithLastLine(_values)
  OBVIOUS
<1>3. OnePerKey(_values)
  BY ValuesAreOnePerKey
<1>4. PICK S : _values \in Seq(S)
  BY <1>3 DEF OnePerKey
<1>5. MAX_LINES \in 1..MAX_LINES /\ LastLine = address_lines[MAX_LINES]
  BY LinesOfTheBlock
<1>6. item = PostcodeItem \/ \E n \in 1..MAX_LINES : item = address_lines[n]
  BY ShownItems, LinesOfTheBlock
<1>7. CASE LastLine \notin spelt /\ PostcodeItem \in spelt
  <2>1. PICK new : new = [item |-> LastLine, data |-> ValueSpelt(PostcodeItem)]
    OBVIOUS
  <2>2. more = Append(_values, new)
    BY <1>1, <1>2, <1>7, <2>1, Zenon DEF WithLastLine
  <2>3. new.item = LastLine /\ new.data = DataIn(_values, PostcodeItem.key)
    <3>1. ValueSpelt(PostcodeItem) = DataIn(_values, PostcodeItem.key)
      BY <1>1, <1>3, <1>7, SpeltIsThere
    <3> QED BY <2>1, <3>1
  <2>4. ASSUME NEW key
        PROVE  DataIn(more, key) = IF key = LastLine.key THEN DataIn(_values, PostcodeItem.key)
                                   ELSE DataIn(_values, key)
    <3>1. PICK R : R = S \cup {new}
      OBVIOUS
    <3>2. _values \in Seq(R) /\ new \in R
      BY <1>4, <3>1, SeqMonotonic
    <3>3. DataIn(Append(_values, new), key)
            = IF key = new.item.key THEN new.data ELSE DataIn(_values, key)
      BY <3>2, DataOfAppended
    <3> QED BY <2>2, <2>3, <3>3
  <2>5. ASSUME NEW other
        PROVE  LineOf(DictOf(more), other)
                 = LineOf(DictOf(_values), IF other.key = LastLine.key THEN PostcodeItem ELSE other)
    BY <2>4, LineIsOfData
  <2>6. \A n \in 1..MAX_LINES : LineOf(DictOf(more), address_lines[n]) \in Seq(LetterWords)
    BY <2>5, LinesNow
  <2>7. item # LastLine
    <3>1. PostcodeItem.key \in DOMAIN DictOf(_values)
      BY <1>1, <1>3, <1>7, SpeltIsThere
    <3> QED BY <3>1 DEF IsShown
  <2>8. \E n \in 1..MAX_LINES : LineOf(DictOf(more), address_lines[n]) = LineOf(DictOf(_values), item)
    <3>1. CASE item = PostcodeItem
      BY <1>5, <2>5, <3>1
    <3>2. CASE \E n \in 1..MAX_LINES : item = address_lines[n]
      <4>1. PICK n \in 1..MAX_LINES : item = address_lines[n]
        BY <3>2
      <4>2. n # MAX_LINES
        BY <1>5, <2>7, <4>1
      <4>3. item.key # LastLine.key
        BY <1>5, <4>1, <4>2, LinesOfTheBlock, TemplatesAssumption
      <4> QED BY <2>5, <4>1, <4>3
    <3> QED BY <1>6, <3>1, <3>2
  <2> QED BY <1>2, <2>6, <2>8
<1>8. CASE ~(LastLine \notin spelt /\ PostcodeItem \in spelt)
  <2>1. more = _values
    BY <1>1, <1>2, <1>8, Zenon DEF WithLastLine
  <2>2. item # PostcodeItem
    <3>1. ASSUME item = PostcodeItem PROVE FALSE
      <4>1. LastLine.key \notin DOMAIN DictOf(_values) /\ ValueSpelt(PostcodeItem) # None
        BY <3>1 DEF IsShown
      <4>2. LastLine \notin spelt
        BY <1>1, <1>3, <4>1, SpeltIsThere
      <4>3. PostcodeItem \in spelt
        <5>1. PICK n \in DOMAIN _values : _values[n].item = PostcodeItem
          BY <4>1 DEF ValueSpelt
        <5> QED BY <1>1, <5>1 DEF ToSet
      <4> QED BY <1>8, <4>2, <4>3
    <3> QED BY <3>1
  <2> QED BY <1>2, <1>6, <2>1, <2>2, LinesNow
<1> QED BY <1>7, <1>8

LEMMA ShownAnyway ==
  ASSUME TemplatesInv, ~has_enough_lines(postal_address),
         NEW item, IsShown(item, DictOf(_values)),
         NEW word \in ToSet(LineOf(DictOf(_values), item))
  PROVE  word \in ToSet(Words(_address_block))
<1>1. PICK S, dict : S = LetterWords /\ dict = DictOf(WithLastLine(_values))
  OBVIOUS
<1>2. /\ \A n \in 1..MAX_LINES : LineOf(dict, address_lines[n]) \in Seq(S)
      /\ \E n \in 1..MAX_LINES : LineOf(dict, address_lines[n]) = LineOf(DictOf(_values), item)
  BY <1>1, BlockLines
<1>3. PICK block : block = [n \in 1..MAX_LINES |-> LineOf(dict, address_lines[n])]
  OBVIOUS
<1>4. _address_block = block
  <2>1. _address_block = [n \in DOMAIN address_lines |-> LineOf(dict, address_lines[n])]
    BY <1>1, Zenon DEF _address_block
  <2> QED BY <1>3, <2>1, LinesOfTheBlock
<1>5. MAX_LINES \in Nat
  BY AddressAssumption
<1>6. block \in Seq(Seq(S)) /\ Len(block) = MAX_LINES
  BY <1>2, <1>3, <1>5
<1>7. PICK n \in 1..MAX_LINES : block[n] = LineOf(DictOf(_values), item)
  BY <1>2, <1>3
<1>8. CountIn(block, word) # 0
  <2>1. n \in 1..Len(block) /\ word \in ToSet(block[n])
    BY <1>6, <1>7
  <2> QED BY <1>6, <2>1, WordsAreThere
<1>9. word \in ToSet(Words(block))
  BY <1>6, <1>8, WordsAreThere
<1> QED BY <1>4, <1>9

(* Every word of the address that a letter is given is shown on it,        *)
(* whether its address is complete or not (template.py:741).               *)
THEOREM AddressAlwaysShown == TemplatesSpec => []AddressIsShown
<1>1. TemplatesInv => AddressIsShown
  <2>1. ASSUME TemplatesInv, ~has_non_recipient_address_line(postal_address),
               has_valid_local_address(postal_address) => OnePostcode(postal_address),
               NEW item, IsShown(item, DictOf(_values))
        PROVE  ToSet(LineOf(DictOf(_values), item))
                 \subseteq ToSet(Words(_address_block)) \cup CountryNames
    <3>1. CASE has_enough_lines(postal_address)
      BY <2>1, <3>1, ShownWhole
    <3>2. CASE ~has_enough_lines(postal_address)
      BY <2>1, <3>2, ShownAnyway
    <3> QED BY <3>1, <3>2
  <2> QED BY <2>1, Zenon DEF AddressIsShown, IsShown
<1> QED BY <1>1, TemplatesInductive, PTL
=============================================================================
