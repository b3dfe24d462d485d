--------------------------- MODULE MessageTemplates ---------------------------
(***************************************************************************)
(* template.py: the values, placeholders and texts of the templates of     *)
(* emails and letters, and the address that a letter shows.  Those of text *)
(* messages are RecipientCSV's.                                            *)
(*                                                                         *)
(* A text is a sequence of parts: words and spaces, whose name is NoName,  *)
(* and placeholders.  A value is <<>> for None, or <<words>>.              *)
(***************************************************************************)
EXTENDS Insensitive, PostalAddress

CONSTANTS
  Templates,      \* records of a template_type and texts: subject, content, and
                  \* letter_welsh_subject, letter_welsh_content, contact_block
  GivenValues,    \* sequences of entries, as mappings are made of
  address_lines,  \* items in the spelling of the address block, in order
  PostcodeItem    \* as it is spelt where an address is shown

NoName == [key |-> 0, spelling |-> 0]

ASSUME TemplatesAssumption ==
  /\ address_lines \in Seq(ToSet(address_lines)) /\ Len(address_lines) = MAX_LINES
  /\ \A m, n \in DOMAIN address_lines : address_lines[m].key = address_lines[n].key => m = n
  /\ {NoName.key, PostcodeItem.key} \cap KeysOf(address_lines) = {}

ASSUME TextsAssumption ==
  \A t \in Templates :
    \A written \in {t.subject, t.content, t.letter_welsh_subject, t.letter_welsh_content,
                   t.contact_block} : written \in Seq(ToSet(written))

ASSUME ValuesAssumption ==
  \A entries \in GivenValues :
    /\ entries \in Seq(ToSet(entries))
    /\ \A entry \in ToSet(entries) :
         entry.data # None => Head(entry.data) \in Seq(ToSet(Head(entry.data)))

VARIABLES
  _template, language,
  _subject, content,
  _values,    \* entries
  \* History:
  given_values,  \* those that were set last
  made           \* the placeholders when they were set

templates_vars == <<_template, language, _subject, content, _values, given_values, made>>

-----------------------------------------------------------------------------
(* Placeholders and values.                                                *)

IsText(part) == part.name = NoName

get_placeholders(text) ==
  LET names == Where(text, {part \in ToSet(text) : ~IsText(part)})
  IN FromIterable([n \in DOMAIN names |-> names[n].name])

(* The placeholders of all of the texts: the spelling of the first counts. *)
Union(texts) == FoldLeft(LAMBDA known, text : Or(known, get_placeholders(text)), <<>>, texts)

(* Mutant of placeholders: the content comes first.                        *)
placeholders_of_content(t, subject, text) ==
  Union(<<text, t.contact_block, t.letter_welsh_subject, t.letter_welsh_content, subject>>)

(* A letter's are those of both languages.                                 *)
placeholders(t, subject, text) ==
  IF t.template_type = "letter"
  THEN Union(<<t.contact_block, t.letter_welsh_subject, t.letter_welsh_content, subject, text>>)
  ELSE Union(<<subject, text>>)

placeholders_now == placeholders(_template, _subject, content)

(* as_dict_with_keys: in the spelling of the placeholders.                 *)
ValuesOf(known, entries) ==
  LET dict == DictOf(entries)
      keys == Or(known, [n \in DOMAIN entries |-> entries[n].item])
  IN [n \in DOMAIN keys |->
        [item |-> keys[n],
         data |-> IF keys[n].key \in DOMAIN dict THEN dict[keys[n].key] ELSE None]]

(* The setter.  With no values, or with none in them, there are none.      *)
SetTo(known, entries) ==
  /\ _values' = IF entries = <<>> THEN <<>> ELSE ValuesOf(known, entries)
  /\ given_values' = entries
  /\ made' = known

(* __init__: the values are set before the texts are those of the language. *)
TemplatesInit ==
  /\ _template \in Templates
  /\ language \in {"english", "welsh"}
  /\ language = "welsh" => _template.template_type = "letter"
  /\ given_values \in GivenValues
  /\ made = placeholders(_template, _template.subject, _template.content)
  /\ _values = IF given_values = <<>> THEN <<>> ELSE ValuesOf(made, given_values)
  /\ _subject = IF language = "welsh" THEN _template.letter_welsh_subject ELSE _template.subject
  /\ content = IF language = "welsh" THEN _template.letter_welsh_content ELSE _template.content

SetTemplateValues ==
  /\ \E entries \in GivenValues : SetTo(placeholders_now, entries)
  /\ UNCHANGED <<_template, language, _subject, content>>

TemplatesSpec == TemplatesInit /\ [][SetTemplateValues]_templates_vars

(* _values is a plain dict, that knows keys as they are spelt.             *)
ValueSpelt(item) ==
  LET places == {n \in DOMAIN _values : _values[n].item = item}
  IN IF places = {} THEN None ELSE _values[Max(places)].data

missing_data ==
  Where(placeholders_now, {item \in ToSet(placeholders_now) : ValueSpelt(item) = None})

additional_data ==
  {entry.item : entry \in ToSet(_values)} \ ToSet(placeholders_now)

-----------------------------------------------------------------------------
(* Field: a text with the values of its placeholders in their places.      *)

Space == [name |-> NoName, text |-> " "]

Replaced(part, dict) ==
  IF IsText(part) \/ part.name.key \notin DOMAIN dict \/ dict[part.name.key] = None THEN <<part>>
  ELSE LET words == Head(dict[part.name.key])
       IN [n \in DOMAIN words |-> [name |-> NoName, text |-> words[n]]]

Filled(text, entries) ==
  LET dict == DictOf(entries)
  IN FoldLeft(LAMBDA done, part : done \o Replaced(part, dict), <<>>, text)

Strip(text) ==
  LET written == {n \in DOMAIN text : text[n] # Space}
  IN IF written = {} THEN <<>> ELSE SubSeq(text, Min(written), Max(written))

content_count_of(text) == Len(Strip(Filled(text, _values)))

(* Only what begins and ends with placeholders is measured.                *)
is_message_empty ==
  \/ content = <<>>
  \/ ~IsText(Head(content)) /\ ~IsText(Last(content)) /\ content_count_of(content) = 0

-----------------------------------------------------------------------------
(* A letter's address.                                                     *)

LastLine == Last(address_lines)

(* What stands there, stripped; nothing for None.                          *)
LineOf(dict, item) ==
  IF item.key \notin DOMAIN dict \/ dict[item.key] = None THEN <<>>
  ELSE Where(Head(dict[item.key]), ToSet(Head(dict[item.key])) \ {" "})

(* from_personalisation: with the last line, if there is a value for it,   *)
(* even an empty one, and else with the postcode.                          *)
postal_address ==
  LET dict == DictOf(_values)
      keys == Append(Front(address_lines),
                     IF LastLine.key \in DOMAIN dict THEN LastLine ELSE PostcodeItem)
  IN from_personalisation([n \in DOMAIN keys |-> LineOf(dict, keys[n])])

(* Mutant of WithLastLine: the postcode has no line.                       *)
WithoutPostcodeLine(entries) == entries

(* The block has no line for the postcode but the last one.                *)
WithLastLine(entries) ==
  LET spelt == {entry.item : entry \in ToSet(entries)}
  IN IF LastLine \notin spelt /\ PostcodeItem \in spelt
     THEN Append(entries, [item |-> LastLine, data |-> ValueSpelt(PostcodeItem)])
     ELSE entries

(* An address with too few lines is shown with the names of all lines that *)
(* have no value.                                                          *)
_address_block ==
  IF has_enough_lines(postal_address) /\ ~has_too_many_lines(postal_address)
  THEN normalised_lines(postal_address)
  ELSE LET dict == DictOf(WithLastLine(_values))
       IN [n \in DOMAIN address_lines |-> LineOf(dict, address_lines[n])]

-----------------------------------------------------------------------------
(* Properties.                                                             *)

HasValue(key) ==
  LET places == EntriesOf(given_values, key)
  IN places # {} /\ given_values[Max(places)].data # None

(* However often values are set, and whatever the spelling of their names  *)
(* in the texts of both languages and in the values, what a template says  *)
(* of its values agrees with what goes out.  Missing are the placeholders  *)
(* without a value, once each, and where a text still shows a placeholder  *)
(* it is one of those.  Additional are the names of other values, and the  *)
(* placeholders that were there when the values were set, those of the     *)
(* language that the letter is not in.  And a message is found empty when  *)
(* nothing of it is left to read, unless there are spaces outside its      *)
(* placeholders: they are taken for words.                                 *)
AnswersAreOfTheText ==
  LET names == KeysOf(placeholders_now)
      set == {entry.item.key : entry \in ToSet(given_values)}
  IN /\ Len(missing_data) = Cardinality(KeysOf(missing_data))
     /\ KeysOf(missing_data) = {key \in names : ~HasValue(key)}
     /\ \A text \in {_subject, content} :
          KeysOf(get_placeholders(Filled(text, _values)))
            = KeysOf(get_placeholders(text)) \cap KeysOf(missing_data)
     /\ {item.key : item \in additional_data}
          = (IF set = {} THEN {} ELSE set \cup KeysOf(made)) \ names
     /\ is_message_empty <=>
          /\ Strip(Filled(content, _values)) = <<>>
          /\ content # <<>> => Space \notin {Head(content), Last(content)}

(* Every word of the address that a letter is given is shown on it, if its *)
(* lines are all the recipient's and, if it is valid, one postcode with at *)
(* most the town beside it is among them; but for names of countries, and  *)
(* what is given as the postcode beside a last line, even one that is      *)
(* empty.  Where there are too few lines, what is given as the last line   *)
(* beside a postcode is not shown either, nor is the postcode, if its name *)
(* is spelt otherwise than where an address is shown.                      *)
AddressIsShown ==
  LET dict == DictOf(_values)
      enough == has_enough_lines(postal_address)
      shown == {item \in ToSet(Append(address_lines, PostcodeItem)) :
                  /\ item = PostcodeItem =>
                       LastLine.key \notin DOMAIN dict /\ (enough \/ ValueSpelt(item) # None)
                  /\ item = LastLine => enough \/ PostcodeItem.key \notin DOMAIN dict}
  IN /\ _template.template_type = "letter"
     /\ ~has_non_recipient_address_line(postal_address)
     /\ has_valid_local_address(postal_address) => OnePostcode(postal_address)
     =>
     \A item \in shown :
       ToSet(LineOf(dict, item)) \subseteq ToSet(Words(_address_block)) \cup CountryNames
=============================================================================
