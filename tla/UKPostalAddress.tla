--------------------------- MODULE UKPostalAddress ---------------------------
(***************************************************************************)
(* recipient_validation/postal_address.py: what is made of the lines of an *)
(* address in the United Kingdom, or of a British forces post office, or   *)
(* abroad; and what is made of that when it is stored and read again.      *)
(*                                                                         *)
(* A line is a sequence of words, and empty if it is nothing but spaces    *)
(* and commas.                                                             *)
(***************************************************************************)
EXTENDS Countries

CONSTANTS
  UKAddresses,      \* sequences of lines to start from
  Postcode,         \* what is written for a postcode, and its normal form
  InvalidStarts,    \* words that begin with an invalid character
  Strokes,          \* words without a letter or a digit
  MIN_LINES, MAX_LINES

ASSUME UKAddressAssumption ==
  /\ MIN_LINES \in Nat /\ MAX_LINES \in Nat /\ 1 < MIN_LINES /\ MIN_LINES <= MAX_LINES
  /\ \A address \in UKAddresses : address \in Seq(ToSet(address))

VARIABLES
  allow_international_letters,
  address,  \* the PostalAddress that was made last
  \* History:
  given,    \* the first of them
  stored    \* has one been stored and read again?

uk_vars == <<allow_international_letters, address, given, stored>>

-----------------------------------------------------------------------------
(* __init__.                                                               *)

Lines(raw_address) ==
  LET written == Where(raw_address, {line \in ToSet(raw_address) : line # <<>>})
  IN IF written = <<>> THEN <<<<>>>> ELSE written

IsBfpo(line) ==
  /\ line # <<>> /\ Head(line) = "BFPO"
  /\ Tail(line) \in {<<>>, <<"c/o">>} \cup
       UNION {{<<number>>, <<"c/o", number>>} : number \in DOMAIN Numerals}

NoNumber == "None"

BfpoNumber(lines) ==
  LET numbered == {n \in DOMAIN lines : IsBfpo(lines[n]) /\ Last(lines[n]) \in DOMAIN Numerals}
  IN IF numbered = {} THEN NoNumber ELSE Numerals[Last(lines[Min(numbered)])]

(* Where one has a number, all lines that are BFPO lines are taken out.    *)
_parse_and_extract_bfpo(lines, number) ==
  IF number = NoNumber THEN lines ELSE Where(lines, {line \in ToSet(lines) : ~IsBfpo(line)})

(* The lines, from the end to the first other country, that are names of   *)
(* this one: wherever they are, lines that are no country's are passed by. *)
(* found are the countries of the lines.                                   *)
trailing_uk_countries(found) ==
  LET abroad == {n \in DOMAIN found : found[n] \notin {NotFound, UK}}
  IN {n \in DOMAIN found : found[n] = UK /\ \A m \in abroad : m < n}

(* As many lines go from the end as there are names of this country.       *)
lines_to_truncate(found) == Max({Cardinality(trailing_uk_countries(found)), 1})

LastIsCountry(found) == found # <<>> /\ Last(found) # NotFound

WithCountry(number, lines, found) ==
  [bfpo_number |-> number,
   lines_without_bfpo |-> lines,
   country |-> IF LastIsCountry(found) THEN Last(found) ELSE UK,
   lines_without_country_or_bfpo |->
     IF LastIsCountry(found) THEN SubSeq(lines, 1, Len(lines) - lines_to_truncate(found))
     ELSE lines]

CountriesOf(lines) == [n \in DOMAIN lines |-> CountryOf(lines[n])]

Parsed(number, lines) == WithCountry(number, lines, CountriesOf(lines))

PostalAddressOf(raw_address) ==
  LET lines == Lines(raw_address)
      number == BfpoNumber(lines)
  IN Parsed(number, _parse_and_extract_bfpo(lines, number))

(* Of an address that is nothing but its BFPO lines there is no last line  *)
(* to look at: an IndexError.                                              *)
Raises(a) == a.lines_without_bfpo = <<>>

-----------------------------------------------------------------------------
(* What is asked of an address.                                            *)

is_bfpo_address(a) == a.bfpo_number # NoNumber

postage_of(a) == postage_zone(a.country)

international(a) == postage_of(a) # "united-kingdom"

format_postcode_or_none(line) ==
  IF Len(line) = 1 /\ Head(line) \in DOMAIN Postcode THEN <<Postcode[Head(line)]>> ELSE <<>>

NoPostcode == <<>>

postcode(a) ==
  LET lines == a.lines_without_country_or_bfpo
  IN IF international(a) \/ lines = <<>> THEN NoPostcode
     ELSE format_postcode_or_none(Last(lines))

has_valid_postcode(a) == postcode(a) # NoPostcode

(* Mutant of WithPostcode: the postcode as it was written stays.           *)
WithPostcodeTwice(a) ==
  a.lines_without_country_or_bfpo
    \o IF has_valid_postcode(a) THEN <<postcode(a)>> ELSE <<>>

(* Without the postcode as it was written, and with it in its normal form. *)
WithPostcode(a) ==
  LET lines == a.lines_without_country_or_bfpo
  IN IF has_valid_postcode(a) THEN Append(Front(lines), postcode(a)) ELSE lines

normalised_lines(a) ==
  WithPostcode(a)
    \o (IF is_bfpo_address(a) THEN <<<<"BFPO", a.bfpo_number>>>> ELSE <<>>)
    \o (IF international(a) THEN <<a.country>> ELSE <<>>)

bfpo_address_lines(a) ==
  LET lines == normalised_lines(a)
  IN SubSeq(lines, 1, Len(lines) - IF has_valid_postcode(a) THEN 2 ELSE 1)

line_count(a) == Len(normalised_lines(a))

has_enough_lines(a) == line_count(a) >= MIN_LINES

has_too_many_lines(a) == line_count(a) > MAX_LINES

has_invalid_country_for_bfpo_address(a) ==
  international(a) /\ is_bfpo_address(a)

has_valid_last_line(a) ==
  \/ allow_international_letters /\ international(a) /\ ~is_bfpo_address(a)
  \/ has_valid_postcode(a)
  \/ is_bfpo_address(a) /\ ~has_invalid_country_for_bfpo_address(a)

StartsInvalidly(line) == line # <<>> /\ Head(line) \in InvalidStarts

has_invalid_characters(a) ==
  \E line \in ToSet(normalised_lines(a)) : StartsInvalidly(line)

IsNoFixedAbode(line) ==
  \/ line = <<"NFA">>
  \/ \E n \in 1..Len(line) - 2 :
       SubSeq(line, n, n + 2) \in {<<"no", "fixed", "abode">>, <<"no", "fixed", "address">>}

has_no_fixed_abode_address(a) ==
  \E line \in ToSet(normalised_lines(a)) : IsNoFixedAbode(line)

HasLetters(line) == ~ToSet(line) \subseteq Strokes

has_alphanumeric_character_in_address_lines_1_and_2(a) ==
  LET lines == normalised_lines(a)
  IN Len(lines) >= 2 /\ \A n \in 1..2 : HasLetters(lines[n])

valid(a) ==
  /\ has_valid_last_line(a)
  /\ has_enough_lines(a)
  /\ ~has_too_many_lines(a)
  /\ ~has_invalid_characters(a)
  /\ ~has_invalid_country_for_bfpo_address(a)
  /\ ~has_no_fixed_abode_address(a)
  /\ has_alphanumeric_character_in_address_lines_1_and_2(a)

(* __eq__, of addresses that both allow letters abroad or both do not.     *)
Same(one, other) ==
  /\ normalised_lines(one) = normalised_lines(other)
  /\ one.bfpo_number = other.bfpo_number
  /\ one.country = other.country

-----------------------------------------------------------------------------
(* Stored as text or as personalisation, and read again.                   *)

(* Mutant of postcode_offset: the postcode of a BFPO address stays where   *)
(* it was as well.                                                         *)
postcode_offset_of_any(a) == 1

(* The last lines, that have keys of their own.                            *)
postcode_offset(a) ==
  IF has_valid_postcode(a) /\ is_bfpo_address(a) THEN 2 ELSE 1

(* address_line_1 to the one before the last, of which the last is the     *)
(* postcode of a BFPO address, and the last.  Keys without a line are left *)
(* out: they are empty, and none of what is read again.                    *)
as_personalisation(a) ==
  LET lines == normalised_lines(a)
      with_postcode == has_valid_postcode(a) /\ is_bfpo_address(a)
      keys == MAX_LINES - IF with_postcode THEN 2 ELSE 1
  IN SubSeq(lines, 1, Min({keys, Len(lines) - postcode_offset(a)}))
       \o (IF with_postcode THEN <<postcode(a)>> ELSE <<>>)
       \o <<Last(lines)>>

UKAddressInit ==
  /\ address \in {PostalAddressOf(raw_address) : raw_address \in UKAddresses}
  /\ ~Raises(address) /\ given = address
  /\ allow_international_letters \in BOOLEAN
  /\ stored = FALSE

ReadAgain(raw_address) ==
  /\ address' = PostalAddressOf(raw_address)
  /\ stored' = TRUE
  /\ UNCHANGED <<allow_international_letters, given>>

(* What cannot be read, or has no lines left, is not stored.               *)
Storable(a) == ~Raises(a) /\ normalised_lines(a) # <<>>

(* With a key for the last line, it and not the postcode is read again.    *)
Stored(a) == {normalised_lines(a), as_personalisation(a)}

UKAddressNext ==
  \/ Storable(address) /\ \E raw_address \in Stored(address) : ReadAgain(raw_address)
  \/ ~Storable(address) /\ UNCHANGED uk_vars

UKAddressSpec == UKAddressInit /\ [][UKAddressNext]_uk_vars

-----------------------------------------------------------------------------
(* Names of countries may stand in an address; numbers are written as they *)
(* are read; a postcode in its normal form is one, and no country's name.  *)
ASSUME NamesAssumption ==
  /\ \A name \in CanonicalNames :
       /\ name # <<>> /\ Head(name) # "BFPO" /\ HasLetters(name)
       /\ ~StartsInvalidly(name) /\ ~IsNoFixedAbode(name)
  /\ DOMAIN Numerals \cap {"BFPO", "c/o"} = {}
  /\ \A word \in DOMAIN Numerals :
       LET number == Numerals[word]
       IN number # NoNumber /\ number \in DOMAIN Numerals /\ Numerals[number] = number
  /\ \A word \in DOMAIN Postcode :
       LET code == Postcode[word]
       IN /\ code # "BFPO" /\ code \in DOMAIN Postcode /\ Postcode[code] = code
          /\ CountryOf(<<code>>) = NotFound

-----------------------------------------------------------------------------
(* Properties.                                                             *)

(* The name that the tables have for a country may be one that is itself   *)
(* another name there, of a country in the same zone.                      *)
SameUnderItsOtherName(a, other) ==
  /\ international(other)
  /\ Front(normalised_lines(a)) = Front(normalised_lines(other))
  /\ a.country = CountryOf(other.country)
  /\ postage_of(a) = postage_of(other)

(* Beneath a name of this country that was the last line is that of        *)
(* another, or another name of this one.                                   *)
CountryBeneath(a) ==
  ~international(a) /\ LastIsCountry(CountriesOf(a.lines_without_country_or_bfpo))

(* A valid address can be stored and read, in either way and any number of *)
(* times, and is the same and valid; and one that is not valid does not    *)
(* become so, unless lines of it have no keys.  But for addresses in which *)
(* this country is written beneath another: the other is the country when  *)
(* they are read again.                                                    *)
StoredUKAddressesStay ==
  stored =>
    /\ valid(given) /\ ~CountryBeneath(given) =>
         /\ ~Raises(address) /\ valid(address)
         /\ Same(address, given) \/ SameUnderItsOtherName(address, given)
         /\ postcode(address) = postcode(given)
    /\ ~Raises(address) /\ valid(address) =>
         valid(given) \/ has_too_many_lines(given) \/ CountryBeneath(given)

(* No line comes after a name of a country.                                *)
CountriesComeLast(found) ==
  \A n \in DOMAIN found : found[n] # NotFound =>
    \A m \in n..Len(found) : found[m] # NotFound

(* The lines that are the recipient's own.                                 *)
OwnLines(lines) == Where(lines, {line \in ToSet(lines) : CountryOf(line) = NotFound})

(* What becomes of them.                                                   *)
OwnLinesSent(lines) ==
  LET code == IF lines = <<>> THEN NoPostcode ELSE format_postcode_or_none(Last(lines))
  IN IF international(given) \/ code = NoPostcode THEN lines ELSE Append(Front(lines), code)

(* Of a valid address whose country, if it says one, comes last and is not *)
(* beneath another, every line goes out, in its place, with the postcode   *)
(* in its normal form, and what goes above the footer of a BFPO address is *)
(* what is before it.                                                      *)
ValidUKAddressesGoOutWhole ==
  /\ valid(given) /\ ~CountryBeneath(given)
  /\ CountriesComeLast(CountriesOf(given.lines_without_bfpo))
  =>
  LET sent == normalised_lines(address)
  IN /\ OwnLines(_parse_and_extract_bfpo(sent, BfpoNumber(sent)))
          = OwnLinesSent(OwnLines(given.lines_without_bfpo))
     /\ is_bfpo_address(address) =>
          sent = bfpo_address_lines(address)
                   \o (IF has_valid_postcode(address) THEN <<postcode(address)>> ELSE <<>>)
                   \o <<<<"BFPO", given.bfpo_number>>>>
=============================================================================
