------------------------------ MODULE MCMessages ------------------------------
(***************************************************************************)
(* What messages are made of, for TLC: sets of headings, spreadsheets of   *)
(* recipients, templates, postal addresses and phone numbers.  They share  *)
(* no state, so in each behaviour only one of them moves.  What text       *)
(* messages are sent as, Fragments, is checked before.                     *)
(***************************************************************************)
EXTENDS RecipientCSV, InsensitiveSets, MessageTemplates, PhoneNumber, Fragments

VARIABLE part  \* which of them moves

Item(key, spelling) == [key |-> key, spelling |-> spelling]

Phone == Item(1, 1)
PhoneSpelt == Item(1, 2)
Name == Item(2, 1)
NameSpelt == Item(2, 2)
Other == Item(3, 1)

(* A name, and what stands there if the other column says yes: the same    *)
(* name's value.                                                           *)
NameAndPerhapsAgain ==
  <<[name |-> Name, text |-> Unconditional], [name |-> Other, text |-> Name]>>

Headings == {Phone, Name, NameSpelt, Other}
FromElsewhere == {<<Name, NameSpelt>>, <<Other, NameSpelt>>}

Headers == {
  <<Phone, Name, Other>>, <<Phone, NameSpelt, Other>>, <<Name, Other>>, <<>>,
  <<Phone, Name, Name, Other>>, <<Name, Name, PhoneSpelt>>,
  <<Phone, Name, NameSpelt, Other>>, <<Name, Phone, Name>>,
  <<Phone, Phone, Name, Other>>, <<Phone, Name, PhoneSpelt>>,
  <<Other, Phone, Other, Name>>,
  <<Phone, Unheaded, Name, Other>>, <<Unheaded, Name, Unheaded, Phone>>}

FirstRows ==
  {<<>>, <<Blank>>, <<1>>} \cup [1..2 -> {Blank, Empty, 1, 2}]
    \cup {<<1, 3, 1>>, <<3, 1, 1>>, <<3, 1, Empty>>, <<1, 1, 3>>}
    \cup [1..3 -> {Empty, 1}] \cup [1..4 -> {Empty, 1}] \cup [1..4 -> {1, 2}]

SecondRows == {<<>>, <<2, 1, 1>>, <<1, 1, Empty, 1, 1>>, <<1, Blank>>}

(* To anybody; to one number; to two numbers, neither of them abroad.      *)
ThreeServices == {
  [allow_international_sms |-> TRUE, remaining_messages |-> 2,
   remaining_international_sms_messages |-> 1, guestlist |-> {}],
  [allow_international_sms |-> FALSE, remaining_messages |-> 1,
   remaining_international_sms_messages |-> 1, guestlist |-> {1}],
  [allow_international_sms |-> TRUE, remaining_messages |-> 2,
   remaining_international_sms_messages |-> 0, guestlist |-> {1, 2}]}

Written ==
  [header : Headers,
   rows : {<<>>} \cup {<<row>> : row \in FirstRows}
            \cup {<<row, second>> : row \in FirstRows, second \in SecondRows}]

(* The tables call South Georgia by another name twice.                    *)
Foreigners ==
  ("Belgie" :> "Belgium") @@ ("Belgium" :> "Belgium")
    @@ ("South Georgia" :> "South Georgia and the South Sandwich Islands")
    @@ ("South Georgia and the South Sandwich Islands"
          :> "South Georgia and South Sandwich Islands")
    @@ ("South Georgia and South Sandwich Islands"
          :> "South Georgia and South Sandwich Islands")
Dutch == {"Netherlands", "Holland"}
Unwritten == {"Netherlands", "The Netherlands"}
DatumOnderwerp == {"Datum"}
Brackets == {"(bis"}
TwoPostcodes == {"1234AB", "5678CD"}

ShortLines == {
  <<"street">>, <<"town">>, <<"1234AB">>, <<"1234AB", "town">>, <<"5678CD">>,
  <<"Netherlands">>, <<"Belgie">>, <<"Datum">>, <<"(bis">>}

AnyLines == ShortLines \cup {
  <<"town", "1234AB">>, <<"street", "1234AB", "town">>, <<"1234AB", "Holland">>,
  <<"Holland">>, <<"The Netherlands">>, <<"South Georgia">>, <<"Retouradres", "5678CD", "town">>, <<"(bis", "1234AB">>}

WrittenAddresses ==
  UNION {[1..n -> AnyLines] : n \in 0..3}
    \cup [1..4 -> ShortLines \ {<<"town">>, <<"5678CD">>}]

Word == [name |-> NoName, text |-> "word"]
Part(item) == [name |-> item, text |-> ""]

AddressLines == [n \in 1..3 |-> Item(10 + n, 1)]
PostcodeLine == Item(14, 1)

SomeTexts == {<<>>, <<Part(Name)>>, <<Part(NameSpelt), Word>>}
Contents == SomeTexts \cup {
  <<Part(Name), Part(Other)>>, <<Part(NameSpelt), Space, Part(NameSpelt)>>,
  <<Space, Part(Name)>>, <<Part(Item(13, 2))>>}

NoTexts ==
  [template_type |-> "email", subject |-> <<>>, content |-> <<>>,
   letter_welsh_subject |-> <<>>, letter_welsh_content |-> <<>>, contact_block |-> <<>>]

EmailsAndLetters ==
  [template_type : {"email"}, subject : SomeTexts, content : Contents,
   letter_welsh_subject : {<<>>}, letter_welsh_content : {<<>>}, contact_block : {<<>>}]
  \cup
  [template_type : {"letter"}, subject : {<<Part(Name)>>},
   content : Contents \ {<<>>, <<Space, Part(Name)>>},
   letter_welsh_subject : {<<Part(Other)>>},
   letter_welsh_content : SomeTexts \cup {<<Part(NameSpelt), Space>>},
   contact_block : {<<>>, <<Part(NameSpelt)>>}]

Entry(item, data) == [item |-> item, data |-> data]
With(item, values) == {<<>>} \cup {<<Entry(item, data)>> : data \in values}
Joined(first, second) == {one \o other : one \in first, other \in second}

NamesGiven ==
  LET some == {None, <<<<>>>>, <<<<" ">>>>, <<<<" ", "Ann">>>>}
  IN Joined(With(Name, some), Joined(With(NameSpelt, {<<<<"Bob">>>>}), With(Other, {<<<<>>>>})))

LinesGiven ==
  Joined(With(AddressLines[1], {<<<<"street">>>>}),
    Joined({<<>>, <<Entry(AddressLines[2], <<<<"town">>>>)>>},
      Joined(With(AddressLines[3], {<<<<>>>>, <<<<"Belgie">>>>})
               \cup With(Item(13, 2), {<<<<"5678CD">>>>}),
             With(PostcodeLine, {<<<<"1234AB", "town">>>>, <<<<>>>>})
               \cup With(Item(14, 2), {<<<<"1234AB", "street">>>>}))))

AllGiven == NamesGiven \cup LinesGiven

(* Home is 3: mobiles 1ab, landlines 4ab and 44ab, TV numbers 22a, and     *)
(* numbers 11ab that cost more.  4 is near, with numbers as long as those  *)
(* at home once its code is before them; 2 is far, with longer ones.       *)
Digits(n, first, second) ==
  {s \in [1..n -> 0..4] : s[1] \in first /\ s[2] \in second}
Kinds(numbers, KindOf(_)) == [s \in numbers |-> KindOf(s)]
AnyDigit == 0..4

HomePlan ==
  LET short == Digits(3, {1, 4}, AnyDigit)
      costly == Digits(4, {1}, {1})
      long == Digits(4, {4}, {4})
      KindOf(s) == IF s \in costly THEN "premium"
                   ELSE IF s[1] = 1 THEN "mobile" ELSE "landline"
  IN [lengths |-> {3, 4},
      general |-> short \cup costly \cup long \cup Digits(3, {2}, AnyDigit),
      kinds |-> Kinds(short \cup costly \cup long, KindOf)]

NearPlan ==
  LET used == Digits(3, {1, 4}, AnyDigit)
      KindOf(s) == IF s[1] = 1 THEN "mobile" ELSE "landline"
  IN [lengths |-> {3}, general |-> used \cup Digits(3, {2}, AnyDigit),
      kinds |-> Kinds(used, KindOf)]

FarPlan ==
  LET used == Digits(4, {1}, AnyDigit)
      KindOf(s) == IF s[2] = 1 THEN "premium" ELSE "mobile"
  IN [lengths |-> {4}, general |-> used \cup Digits(4, {3}, AnyDigit),
      kinds |-> Kinds(used, KindOf)]

NumberingPlan == <<>> @@ (2 :> FarPlan) @@ (3 :> HomePlan) @@ (4 :> NearPlan)

Beginnings == {<<>>, <<0>>, <<0, 0>>, <<0, 0, 0>>,
               <<Plus>>, <<Plus, 0>>, <<Plus, 0, 0>>, <<0, Plus>>}
Endings(lengths) == UNION {[1..n -> 0..4] : n \in lengths}
FiveWithCode == Digits(5, {2, 3, 4}, AnyDigit)

WrittenNumbers ==
  [symbols : {b \o e : b \in Beginnings, e \in Endings(1..4) \cup FiveWithCode},
   chars : {"plain"}, contact : {FALSE}]
  \cup [symbols : {b \o e : b \in Beginnings, e \in Endings(2..3)},
        chars : {"plain", "like", "unknown"}, contact : BOOLEAN]

TwoTwo == <<2, 2>>
OneOne == {<<1, 1>>}

Rates == (<<2>> :> 2) @@ (<<2, 1, 2>> :> 4) @@ (<<3>> :> 1)

ASSUME FragmentsAreNeeded ==
  \A count \in 0..500, extended \in 0..20, unicode \in BOOLEAN :
    NoFragmentTooMany(count, extended, unicode)

RecipientsStart ==
  file = [header |-> <<>>, rows |-> <<>>] /\ max_rows = 1
AddressStart == raw = <<>> /\ allow_international_letters = FALSE
TemplatesStart == _template = NoTexts /\ language = "english" /\ given_values = <<>>
PhoneStart == text = [symbols |-> <<1, 1>>, chars |-> "plain", contact |-> FALSE]

Init ==
  /\ part \in {"sets", "recipients", "templates", "addresses", "phones"}
  /\ SetsInit
  /\ \/ part = "recipients"
     \/ part # "recipients" /\ RecipientsStart
  /\ RecipientsInit
  /\ \/ part = "addresses"
     \/ part # "addresses" /\ AddressStart
  /\ AddressInit
  /\ \/ part = "templates"
     \/ part # "templates" /\ TemplatesStart
  /\ TemplatesInit
  /\ \/ part = "phones" /\ PhoneInit
     \/ part # "phones" /\ PhoneStart

Next ==
  /\ UNCHANGED part
  /\ \/ /\ part = "sets" /\ SetsNext
        /\ UNCHANGED <<recipients_vars, templates_vars, address_vars, text>>
     \/ /\ part = "recipients" /\ RecipientsNext
        /\ UNCHANGED <<inner, templates_vars, address_vars, text>>
     \/ /\ part = "templates" /\ SetTemplateValues
        /\ UNCHANGED <<inner, recipients_vars, address_vars, text>>
     \/ /\ part = "addresses" /\ AddressNext
        /\ UNCHANGED <<inner, recipients_vars, templates_vars, text>>
     \/ /\ part = "phones" /\ Format
        /\ UNCHANGED <<inner, recipients_vars, templates_vars, address_vars>>

Spec == Init /\ [][Next]_<<part, inner, recipients_vars, templates_vars, address_vars, text>>
=============================================================================
