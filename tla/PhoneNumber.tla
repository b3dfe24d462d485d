------------------------------ MODULE PhoneNumber ------------------------------
(***************************************************************************)
(* notifynl/phone_number.py over recipient_validation/phone_number.py:     *)
(* what a text is read as, whom a service may send to, and what is made of *)
(* the normal form when it is read again.                                  *)
(*                                                                         *)
(* A text is a sequence of digits and pluses.  libphonenumber is external: *)
(* Plan has what it knows of each country, whose code is one digit here.   *)
(***************************************************************************)
EXTENDS Integers, SequencesExt

CONSTANTS
  Texts,     \* what may be written
  Home,      \* NL_PREFIX
  Plan,      \* per country code: possible lengths, the numbers of a general
             \* form, and what kind of number those are that are in use
  Plus,
  TvPrefix,  \* of is_tv_number
  ShortLength, EMERGENCY_NUMBERS,
  American, AreaLength,  \* a country code that many countries share, and how
                         \* many digits of a number then tell them apart
  INTERNATIONAL_BILLING_RATES  \* multiples, of country codes, with an area or not

Codes == DOMAIN Plan

COUNTRY_PREFIXES == DOMAIN INTERNATIONAL_BILLING_RATES

ASSUME PhoneAssumption ==
  /\ Home \in Codes /\ Codes \subseteq 1..9 /\ Plus \notin 0..9
  /\ Home # American /\ COUNTRY_PREFIXES \subseteq Seq(0..9)

VARIABLE text  \* that was read last: its symbols; whether its chars are plain,
               \* like plain ones, or unknown; and whether it is the contact
               \* of a service

-----------------------------------------------------------------------------
(* libphonenumber, external.  A result is a set: empty for an exception.   *)

Possible(code, national) == Len(national) \in Plan[code].lengths
TooLong(code, national) == Len(national) > Max(Plan[code].lengths)
OfGeneralForm(code, national) == national \in Plan[code].general
number_type(n) ==
  IF n.national \in DOMAIN Plan[n.code].kinds THEN Plan[n.code].kinds[n.national]
  ELSE "unknown"
is_valid_number(n) == number_type(n) # "unknown"

Number(code, national) ==
  IF Len(national) < 2 THEN {} ELSE {[code |-> code, national |-> national]}

(* The zero that is dialled before a national number goes, unless it makes *)
(* a number of a general form one of none,                                 *)
WithoutTrunk(code, digits) ==
  IF /\ digits # <<>> /\ Head(digits) = 0
     /\ OfGeneralForm(code, digits) => OfGeneralForm(code, Tail(digits))
  THEN Tail(digits) ELSE digits

(* or one that is too short.                                               *)
National(code, digits) ==
  LET stripped == WithoutTrunk(code, digits)
  IN IF Possible(code, stripped) \/ TooLong(code, stripped) THEN stripped ELSE digits

WithCode(digits) ==
  IF Len(digits) <= 2 \/ Head(digits) \notin Codes THEN {}
  ELSE Number(Head(digits), National(Head(digits), Tail(digits)))

IsDialledAbroad(digits) ==
  Len(digits) > 2 /\ digits[1] = 0 /\ digits[2] = 0 /\ digits[3] # 0

(* A number in its own country, which may begin with the country's code.   *)
AtHome(digits) ==
  LET rest == WithoutTrunk(Home, Tail(digits))
      coded ==
        /\ Head(digits) = Home
        /\ \/ OfGeneralForm(Home, rest) /\ ~OfGeneralForm(Home, digits)
           \/ TooLong(Home, digits)
  IN IF Len(digits) < 2 THEN {}
     ELSE Number(Home, National(Home, IF coded THEN rest ELSE digits))

WithoutLeading(symbol, symbols) ==
  LET others == {n \in DOMAIN symbols : symbols[n] # symbol}
  IN IF others = {} THEN <<>> ELSE SubSeq(symbols, Min(others), Len(symbols))

(* phonenumbers.parse without a region; what begins with a plus and is of  *)
(* no country may be a number dialled abroad.                              *)
ParseAbroad(symbols) ==
  LET digits == WithoutLeading(Plus, symbols)
  IN IF Plus \in ToSet(digits) THEN {} ELSE WithCode(digits)

Parse(symbols) ==
  LET digits == WithoutLeading(Plus, symbols)
  IN IF Plus \in ToSet(digits) THEN {}
     ELSE IF IsDialledAbroad(digits) THEN WithCode(SubSeq(digits, 3, Len(digits)))
     ELSE IF digits # symbols THEN WithCode(digits)
     ELSE AtHome(digits)

(* Format E164 without its plus.                                           *)
E164(n) == <<n.code>> \o n.national

(* What is of no general form is not formatted.                            *)
NationalFormat(n) ==
  IF OfGeneralForm(n.code, n.national) THEN <<0>> \o n.national ELSE n.national

-----------------------------------------------------------------------------
(* Reading.                                                                *)

(* str(national_number): an integer, that has no leading zeros.            *)
NationalNumber(n) == WithoutLeading(0, n.national)

StartsWithTv(n) == IsPrefix(TvPrefix, NationalNumber(n))
is_tv_number(n) == StartsWithTv(n)

ALLOW_LIST == {"mobile", "landline"}
_is_allowed_phone_number_type(n) == number_type(n) \in ALLOW_LIST

(* Mutant of _validate_forced_international_number: nothing is forced.     *)
NeverForced(symbols) == {}

_validate_forced_international_number(symbols) ==
  {n \in ParseAbroad(symbols) : Possible(n.code, n.national)}

(* A number of a length that there is, if need be with a plus before it.   *)
WithForced(n, symbols) ==
  IF Possible(n.code, n.national) THEN {n}
  ELSE _validate_forced_international_number(symbols)

parse_phone_number(symbols, contact) ==
  LET short(n) == contact /\ Len(NationalNumber(n)) = ShortLength
      sendable(n) == \/ is_valid_number(n) /\ _is_allowed_phone_number_type(n)
                     \/ is_tv_number(n)
  IN UNION {IF short(n) THEN {n} \ {m \in {n} : NationalNumber(m) \in EMERGENCY_NUMBERS}
            ELSE {m \in WithForced(n, symbols) : sendable(m)} : n \in Parse(symbols)}

(* Mutant of _thoroughly_normalise_number: stray zeros stay.               *)
WithoutPluses(symbols) == SelectSeq(symbols, LAMBDA symbol : symbol # Plus)

(* Characters that are like a digit or a hyphen become one.                *)
_thoroughly_normalise_number(symbols) ==
  WithoutLeading(0, SelectSeq(symbols, LAMBDA symbol : symbol # Plus))

(* __init__: the numbers that it makes, none if it raises.                 *)
PhoneNumber(t) ==
  LET first == IF t.chars = "plain" THEN parse_phone_number(t.symbols, t.contact) ELSE {}
      normal == _thoroughly_normalise_number(t.symbols)
  IN IF first # {} THEN first
     ELSE IF t.chars = "unknown" \/ normal = <<>> THEN {}
     ELSE parse_phone_number(normal, t.contact)

-----------------------------------------------------------------------------
(* Permissions and billing.                                                *)

LANDLINE_CODES == {"landline"}

is_uk_phone_number(n) == n.code = Home

AbroadAllowed(n, allow_international) == allow_international \/ is_uk_phone_number(n)

LandlineAllowed(n, allow_landline) ==
  allow_landline \/ n.code # Home \/ number_type(n) \notin LANDLINE_CODES

CountrySupported(n) == <<n.code>> \in COUNTRY_PREFIXES

validate(n, allow_international, allow_landline) ==
  /\ AbroadAllowed(n, allow_international)
  /\ LandlineAllowed(n, allow_landline)
  /\ CountrySupported(n)

(* Every number with the code of home is of its region, valid or not.      *)
is_international_number(n) == n.code # Home /\ ~is_tv_number(n)

(* No region of what is at home is the one it is compared with.            *)
is_a_crown_dependency_number(n) == is_uk_phone_number(n) /\ ~is_tv_number(n)

prefix(n) ==
  LET country_and_area_code == SubSeq(E164(n), 1, 1 + AreaLength)
  IN IF n.code = American /\ country_and_area_code \in COUNTRY_PREFIXES
     THEN country_and_area_code ELSE <<n.code>>

(* None for a KeyError.                                                    *)
get_international_phone_info(n) ==
  LET info(rate_multiplier) ==
        [international |-> is_international_number(n),
         crown_dependency |-> is_a_crown_dependency_number(n),
         country_prefix |-> prefix(n), rate_multiplier |-> rate_multiplier]
  IN IF ~is_international_number(n) THEN {info(1)}
     ELSE {info(INTERNATIONAL_BILLING_RATES[p]) : p \in {prefix(n)} \cap COUNTRY_PREFIXES}

-----------------------------------------------------------------------------
PhoneInit == text \in Texts

Plainly(symbols) == [symbols |-> symbols, chars |-> "plain", contact |-> FALSE]

get_human_readable_format(n) ==
  Plainly(IF n.code # Home THEN <<Plus>> \o E164(n) ELSE NationalFormat(n))

(* format_recipient of recipients.py: what is no number stays as it is.    *)
format_recipient(t) ==
  LET numbers == PhoneNumber([t EXCEPT !.contact = FALSE])
  IN IF numbers = {} THEN t
     ELSE Plainly(E164(CHOOSE n \in numbers : TRUE))

(* What is stored, or what is shown, is read again.                        *)
Format ==
  \/ text' = format_recipient(text)
  \/ \E n \in PhoneNumber(text) : text' = get_human_readable_format(n)

PhoneSpec == PhoneInit /\ [][Format]_text

-----------------------------------------------------------------------------
(* Properties.                                                             *)

IsShort(n) == text.contact /\ Len(NationalNumber(n)) = ShortLength

(* Taken for TV because the zeros before it are not looked at.             *)
IsTvAfterZeros(n) == n.code = Home /\ is_tv_number(n) /\ ~IsPrefix(TvPrefix, n.national)

(* What is stored of a number is read as that number again, for all that   *)
(* it was written as, but for short numbers of services and for those with *)
(* zeros before what TV uses.  The normal form has no plus: of a number    *)
(* abroad it may be as long as one at home, and is then refused, or is     *)
(* another number.  What is shown of it always is read as that number.     *)
NormalFormsStay ==
  \A n \in PhoneNumber(text) :
    \/ /\ \/ PhoneNumber(Plainly(E164(n))) = {n}
          \/ n.code # Home /\ Possible(Home, E164(n))
       /\ PhoneNumber(get_human_readable_format(n)) = {n}
    \/ IsShort(n) \/ IsTvAfterZeros(n)

(* The ways of writing a number that are known of: with the country's code *)
(* after a plus or the zeros for it, or after none or stray zeros; and at  *)
(* home with the zero that is dialled before it, or without any code.      *)
Coded(n) ==
  {E164(n)} \cup IF n.code = Home THEN {<<Home, 0>> \o n.national} ELSE {}

WithPlus(n) ==
  {before \o digits : before \in {<<Plus>>, <<0, 0>>, <<Plus, 0, 0>>}, digits \in Coded(n)}

WithoutPlus(n) ==
  {before \o digits : before \in {<<>>, <<0>>, <<0, Plus>>, <<0, 0, 0>>}, digits \in Coded(n)}

WithoutCode(n) ==
  IF n.code # Home THEN {}
  ELSE {before \o n.national :
          before \in {<<>>, <<0>>, <<0, 0, 0>>, <<Plus, 0>>, <<0, Plus>>, <<0, Plus, 0>>}}

(* A valid number is read as that number in whichever of those ways it is  *)
(* written, as the docstrings promise of numbers that are close to valid,  *)
(* but for one abroad that without its plus may be one at home; and        *)
(* whoever may send to it is told what it costs.                           *)
WritingsAreOneNumber ==
  \A n \in PhoneNumber(text) :
    is_valid_number(n) /\ ~is_tv_number(n) /\ ~IsShort(n) =>
      /\ \A symbols \in WithPlus(n) \cup WithoutPlus(n) \cup WithoutCode(n) :
           \/ PhoneNumber(Plainly(symbols)) = {n}
           \/ symbols \in WithoutPlus(n) /\ n.code # Home /\ Possible(Home, E164(n))
      /\ validate(n, TRUE, TRUE) => get_international_phone_info(n) # {}
=============================================================================
