------------------------------ MODULE PostalAddress ------------------------------
(***************************************************************************)
(* notifynl/postal_address.py: what is made of the lines of an address,    *)
(* and what is made of that when it is stored and read again.              *)
(*                                                                         *)
(* A line is a sequence of words, of which some are postcodes, names of    *)
(* countries, or labels of lines that are not the recipient's, in whatever *)
(* case they are written.                                                  *)
(***************************************************************************)
EXTENDS Integers, Lists

CONSTANTS
  Addresses,             \* sequences of lines to start from
  Postcodes,
  Nederland,             \* the names that are known of the Netherlands
  LeftOut,               \* the names of it whose lines are left out
  CanonicalName,         \* of the names of other countries, from those that are known
  Retouradres,           \* begins the line of a return address
  Labels,                \* Datum, Onderwerp
  InvalidStarts,         \* words that begin with an invalid character
  MIN_LINES, MAX_LINES

ASSUME AddressAssumption == MIN_LINES \in Nat /\ MAX_LINES \in Nat /\ 1 < MIN_LINES /\ MIN_LINES <= MAX_LINES

ASSUME LinesAssumption ==
  \A address \in Addresses :
    /\ address \in Seq(ToSet(address))
    /\ \A line \in ToSet(address) : line \in Seq(ToSet(line))

(* No word is of two kinds.  A canonical name is a known one, if not always *)
(* of itself: the tables may give it another, which is its own.            *)
ASSUME WordsAssumption ==
  /\ Postcodes \cap ({Retouradres} \cup Labels \cup DOMAIN CanonicalName) = {}
  /\ "NL" \notin DOMAIN CanonicalName
  /\ \A name \in Range(CanonicalName) :
       /\ name \in DOMAIN CanonicalName
       /\ CanonicalName[CanonicalName[name]] = CanonicalName[name]
       /\ name \notin {Retouradres} \cup Labels \cup InvalidStarts

VARIABLES
  allow_international_letters,
  raw,    \* raw_address, of the PostalAddress that was made last
  \* History:
  given,  \* raw_address of the first of them
  stored  \* has one been stored and read again?

address_vars == <<allow_international_letters, raw, given, stored>>

-----------------------------------------------------------------------------
(* __init__.                                                               *)

IsLabel(line) == line \in {<<label>> : label \in Labels}
IsReturnAddress(line) == line # <<>> /\ Head(line) = Retouradres

(* _without_non_recipient_lines: return addresses, and labels with the     *)
(* line after each.                                                        *)
RecipientLines(lines) ==
  FoldLeft(LAMBDA known, line :
             IF known.skip_next THEN [known EXCEPT !.skip_next = FALSE]
             ELSE IF IsReturnAddress(line) THEN known
             ELSE IF IsLabel(line) THEN [known EXCEPT !.skip_next = TRUE]
             ELSE [known EXCEPT !.filtered = Append(@, line)],
           [filtered |-> <<>>, skip_next |-> FALSE], lines).filtered

WrittenLines(address) == Where(address, {line \in ToSet(address) : line # <<>>})

Lines(address) ==
  LET lines == RecipientLines(WrittenLines(address)) IN IF lines = <<>> THEN <<<<>>>> ELSE lines

has_non_recipient_address_line(address) ==
  \E line \in ToSet(address) : IsReturnAddress(line) \/ IsLabel(line)

-----------------------------------------------------------------------------
(* Country, postcode and city.                                             *)

IsCountry(line) ==
  line \in {<<name>> : name \in Nederland \cup DOMAIN CanonicalName}

country_NL == "NL"

last_line(address) == Last(Lines(address))

(* The country that a line names, or the Netherlands.                      *)
CountryOf(line) ==
  IF line \in {<<name>> : name \in DOMAIN CanonicalName} THEN CanonicalName[Head(line)]
  ELSE country_NL

country(address) == CountryOf(last_line(address))

(* By its postage zone.                                                    *)
international(address) == country(address) # country_NL

CodesOf(line) == {n \in DOMAIN line : line[n] \in Postcodes}
HasCode(line) == CodesOf(line) # {}
CodeAt(line) == Min(CodesOf(line))

PostcodeLines(lines) == {n \in DOMAIN lines : HasCode(lines[n])}

None == <<>>

postcode(address) ==
  LET lines == Lines(address)
      found == PostcodeLines(lines)
  IN IF international(address) \/ found = {} THEN None
     ELSE LET line == lines[Max(found)] IN <<line[CodeAt(line)]>>

IsTown(words) == words # <<>> /\ ~IsCountry(words)

(* A town that the n-th line, with a postcode, is followed, preceded or    *)
(* trailed by; `next` is the index of the line that then goes.             *)
NoTown == [town |-> None, next |-> 0]

TownAt(lines, n) ==
  LET line == lines[n]
      before == SubSeq(line, 1, CodeAt(line) - 1)
      after == SubSeq(line, CodeAt(line) + 1, Len(line))
  IN IF IsTown(before) THEN [town |-> before, next |-> 0]
     ELSE IF IsTown(after) THEN [town |-> after, next |-> 0]
     ELSE IF n < Len(lines) /\ IsTown(lines[n + 1])
          THEN [town |-> lines[n + 1], next |-> n + 1]
     ELSE NoTown

Town(lines) ==
  LET towns == {n \in PostcodeLines(lines) : TownAt(lines, n) # NoTown}
  IN IF towns = {} THEN NoTown ELSE TownAt(lines, Min(towns))

city(address) == Town(Lines(address)).town

has_valid_local_address(address) == postcode(address) # None /\ city(address) # None

-----------------------------------------------------------------------------
(* The normal form.                                                        *)

(* Mutant of WithoutTown: the line is not taken out.                       *)
WithoutTownLine(lines) == lines

(* The line that is only a town goes to the postcode.                      *)
WithoutTown(lines) ==
  IF Town(lines).next = 0 THEN lines ELSE RemoveAt(lines, Town(lines).next)

(* The other lines, but for those of a postcode or of the Netherlands.     *)
Remaining(lines) ==
  LET others == WithoutTown(lines)
  IN Where(others, {line \in ToSet(others) :
                      line # <<>> /\ ~HasCode(line) /\ line \notin {<<name>> : name \in LeftOut}})

(* The last line is the country.                                           *)
InCountry(lines, name) == [lines EXCEPT ![Len(lines)] = <<name>>]

normalised_lines(address) ==
  LET lines == Lines(address)
      remaining == Remaining(lines)
  IN IF international(address) THEN InCountry(lines, country(address))
     ELSE IF ~has_valid_local_address(address) THEN lines
     ELSE Append(remaining,
                 postcode(address) \o IF remaining = <<>> THEN <<>> ELSE city(address))

line_count(address) == Len(normalised_lines(address))

has_enough_lines(address) == line_count(address) >= MIN_LINES

has_too_many_lines(address) == line_count(address) > MAX_LINES

has_invalid_characters(address) ==
  \E line \in ToSet(normalised_lines(address)) : line # <<>> /\ Head(line) \in InvalidStarts

has_valid_international_address(address) ==
  allow_international_letters /\ international(address)

has_valid_local_or_international_address(address) ==
  IF international(address) THEN has_valid_international_address(address)
  ELSE has_valid_local_address(address)

has_valid_last_line(address) ==
  IF international(address) THEN allow_international_letters /\ IsCountry(last_line(address))
  ELSE has_valid_local_address(address)

valid(address) ==
  /\ has_enough_lines(address)
  /\ has_valid_local_or_international_address(address)
  /\ ~has_too_many_lines(address)
  /\ ~has_invalid_characters(address)
  /\ ~has_non_recipient_address_line(address)

(* Mutant of as_personalisation: the last line where the postcode was.     *)
as_personalisation_short(address) ==
  LET lines == normalised_lines(address)
  IN SubSeq(lines, 1, Min({MAX_LINES - 1, Len(lines)}))

(* The last line in address_line_6, and those before it that there are     *)
(* keys for.                                                               *)
as_personalisation(address) ==
  LET lines == normalised_lines(address)
  IN SubSeq(lines, 1, Min({MAX_LINES - 1, Len(lines) - 1})) \o <<Last(lines)>>

from_personalisation(personalisation) == WrittenLines(personalisation)

-----------------------------------------------------------------------------
(* An address is stored as text or as personalisation and read again.      *)

AddressInit ==
  /\ raw \in Addresses /\ given = raw
  /\ allow_international_letters \in BOOLEAN
  /\ stored = FALSE

ReadAgain(lines) ==
  /\ raw' = lines
  /\ stored' = TRUE
  /\ UNCHANGED <<allow_international_letters, given>>

AddressNext ==
  \/ ReadAgain(normalised_lines(raw))
  \/ ReadAgain(from_personalisation(as_personalisation(raw)))

AddressSpec == AddressInit /\ [][AddressNext]_address_vars

-----------------------------------------------------------------------------
(* Properties.                                                             *)

(* An address that was stored is its own normal form, whichever way it is  *)
(* stored: only the name of a country that the tables call by another name *)
(* yet changes once more, and then no more.  If the address was valid it   *)
(* still is, with its country, its postcode and its city, and nothing is   *)
(* said against its last line, and if it was not it is not, unless it had  *)
(* lines that are not a recipient's, which are forgotten.  Only what has   *)
(* too many lines, of which personalisation drops some, may turn into      *)
(* anything.                                                               *)
StoredAddressesStay ==
  stored /\ line_count(given) <= MAX_LINES =>
    /\ \/ normalised_lines(raw) = Lines(raw)
       \/ /\ last_line(raw) = <<country(given)>> /\ country(raw) # country(given)
          /\ normalised_lines(raw) = InCountry(Lines(raw), country(raw))
    /\ country(raw) = CountryOf(<<country(given)>>)
    /\ valid(given) =>
         /\ valid(raw) /\ has_valid_last_line(raw)
         /\ postcode(raw) = postcode(given) /\ city(raw) = city(given)
    /\ valid(raw) => valid(given) \/ has_non_recipient_address_line(given)

Words(lines) == FoldLeft(LAMBDA words, line : words \o line, <<>>, lines)

Often(words, word) == Cardinality({n \in DOMAIN words : words[n] = word})

CountryNames == Nederland \cup LeftOut \cup DOMAIN CanonicalName

OnePostcode(address) ==
  LET lines == Lines(address)
  IN \E n \in PostcodeLines(lines) : PostcodeLines(lines) = {n} /\ Len(lines[n]) <= 2

(* A valid address with one postcode and at most the town beside it goes   *)
(* out whole: each of its words as often as it was given, but for the      *)
(* names of countries.                                                     *)
ValidAddressesGoOutWhole ==
  valid(given) /\ OnePostcode(given) =>
    \A word \in ToSet(Words(given)) \ CountryNames :
      Often(Words(normalised_lines(raw)), word) = Often(Words(given), word)
=============================================================================
