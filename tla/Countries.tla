------------------------------ MODULE Countries ------------------------------
(***************************************************************************)
(* countries/: which country is meant by what is written in an address.    *)
(* The tables are joined into one dictionary, when the module is imported, *)
(* that is read by names however they are spelt.                           *)
(*                                                                         *)
(* A name is a sequence of words.                                          *)
(***************************************************************************)
EXTENDS Insensitive

CONSTANTS
  Graph,          \* its items in order: a name and from, the item that this
                  \* one is another name of, or 0
  Lower,          \* the normal spelling of the words that have another one
  Numerals,       \* the words with digits, and the number that each is read as
  UK,             \* its canonical name
  ENDED_COUNTRIES,  \* what countries that are no more became, NoName if nothing
  IGNORED_NUMERIC_SYNONYMS, UK_ISLANDS_LIST, EUROPEAN_ISLANDS_LIST,
  WELSH_NAMES, ADDITIONAL_SYNONYMS,  \* pairs of a name and a canonical one
  ROYAL_MAIL_EUROPEAN

-----------------------------------------------------------------------------
(* data.py.                                                                *)

NoName == <<>>

find_canonical[n \in DOMAIN Graph] ==
  IF Graph[n].from = 0 THEN Graph[n].name ELSE find_canonical[Graph[n].from]

(* What an item of the graph adds to COUNTRIES_AND_TERRITORIES.            *)
PairsOf(n) ==
  LET synonym == Graph[n].name
      canonical == find_canonical[n]
  IN IF synonym \in IGNORED_NUMERIC_SYNONYMS THEN <<>>
     ELSE IF canonical \in ToSet(UK_ISLANDS_LIST) THEN <<<<synonym, UK>>>>
     ELSE IF canonical \notin DOMAIN ENDED_COUNTRIES THEN <<<<synonym, canonical>>>>
     ELSE IF ENDED_COUNTRIES[canonical] = NoName THEN <<>>
     ELSE <<<<synonym, ENDED_COUNTRIES[canonical]>>, <<canonical, ENDED_COUNTRIES[canonical]>>>>

COUNTRIES_AND_TERRITORIES == FlattenSeq([n \in DOMAIN Graph |-> PairsOf(n)])

UK_ISLANDS == [n \in DOMAIN UK_ISLANDS_LIST |-> <<UK_ISLANDS_LIST[n], UK>>]

EUROPEAN_ISLANDS ==
  [n \in DOMAIN EUROPEAN_ISLANDS_LIST |-> <<EUROPEAN_ISLANDS_LIST[n], EUROPEAN_ISLANDS_LIST[n]>>]

-----------------------------------------------------------------------------
(* __init__.py.                                                            *)

HasDigit(name) == ToSet(name) \cap DOMAIN Numerals # {}

(* make_key; a name with a digit in a table is a ValueError on import.     *)
_normalise_country_name(name) ==
  [n \in DOMAIN name |-> IF name[n] \in DOMAIN Lower THEN Lower[name[n]] ELSE name[n]]

(* dict(pairs): a name written as it was before takes the later value, and *)
(* keeps its place.                                                        *)
Entries(pairs) ==
  LET names == AddPairsSpelt(<<>>, [n \in DOMAIN pairs |-> pairs[n][1]])
      LastOf(name) == Max({n \in DOMAIN pairs : pairs[n][1] = name})
  IN [n \in DOMAIN names |->
        [item |-> [key |-> _normalise_country_name(names[n]), spelling |-> names[n]],
         data |-> pairs[LastOf(names[n])][2]]]

Tables == COUNTRIES_AND_TERRITORIES \o UK_ISLANDS \o EUROPEAN_ISLANDS
            \o WELSH_NAMES \o ADDITIONAL_SYNONYMS

countries == DictOf(Entries(Tables))

CanonicalNames == {countries[key] : key \in DOMAIN countries}

IsKey(name) ==
  ~HasDigit(name) /\ _normalise_country_name(name) \in DOMAIN countries

NotFound == NoName

(* __getitem__: as it is written, or with an article before it.            *)
CountryOf(name) ==
  LET tried == <<name, <<"the">> \o name, <<"yr">> \o name, <<"y">> \o name>>
      found == Where(tried, {form \in ToSet(tried) : IsKey(form)})
  IN IF found = <<>> THEN NotFound ELSE countries[_normalise_country_name(Head(found))]

postage_zone(canonical_name) ==
  IF canonical_name = UK THEN "united-kingdom"
  ELSE IF canonical_name \in ROYAL_MAIL_EUROPEAN THEN "europe"
  ELSE "rest-of-world"

(* This country has names.  Canonical names are found, and those that are  *)
(* other names themselves, for a name in the same zone that is none.       *)
ASSUME CountriesAssumption ==
  /\ UK \in CanonicalNames /\ NotFound \notin CanonicalNames
  /\ \A name \in CanonicalNames :
       LET found == CountryOf(name)
       IN /\ found # NotFound /\ CountryOf(found) = found
          /\ postage_zone(found) = postage_zone(name)
=============================================================================
