------------------------------ MODULE MCLetters ------------------------------
(***************************************************************************)
(* What happens to letters, for TLC: their timings and cancellation, the   *)
(* addresses in the United Kingdom that they go to, the moving of their    *)
(* files, and tickets about them.  They share no state, so in each         *)
(* behaviour only one of them moves.                                       *)
(***************************************************************************)
EXTENDS LetterTimings, FolderMove, UKPostalAddress, Zendesk, TLC

VARIABLE part  \* which of them moves

Places == <<
  [name |-> <<"UK">>, from |-> 0], [name |-> <<"Britain">>, from |-> 1],
  [name |-> <<"Jersey">>, from |-> 0], [name |-> <<"Jerri">>, from |-> 3],
  [name |-> <<"the", "Gambia">>, from |-> 0], [name |-> <<"UM", "67">>, from |-> 5],
  [name |-> <<"Georgia">>, from |-> 0],
  [name |-> <<"GDR">>, from |-> 0], [name |-> <<"DDR">>, from |-> 8],
  [name |-> <<"USSR">>, from |-> 0], [name |-> <<"Germany">>, from |-> 0],
  [name |-> <<"Russia">>, from |-> 0]>>

Spelt == ("Gambia" :> "gambia") @@ ("GAMBIA" :> "gambia") @@ ("ENGLAND" :> "England")
Numbers == ("12" :> "12") @@ ("012" :> "12") @@ ("67" :> "67")
UnitedKingdom == <<"UK">>
Gone == (<<"GDR">> :> <<"Germany">>) @@ (<<"USSR">> :> NoName)
Numeric == {<<"UM", "67">>}
ChannelIslands == <<<<"Jersey">>>>
OtherIslands == <<<<"Corsica">>>>
Welsh == <<<<<<"y", "DU">>, <<"UK">>>>>>
Synonyms == <<
  <<<<"England">>, <<"UK">>>>, <<<<"USSR">>, <<"Russia">>>>,
  <<<<"S", "Georgia">>, <<"South", "Georgia">>>>, <<<<"South", "Georgia">>, <<"Georgia">>>>>>
Europe == {<<"Corsica">>, <<"Germany">>}

Codes == ("sw1a1aa" :> "SW1A 1AA") @@ ("SW1A 1AA" :> "SW1A 1AA")
Brackets == {"(bis"}
Dashes == {"--"}

FewLines == {<<"street">>, <<"sw1a1aa">>, <<"BFPO", "12">>, <<"ENGLAND">>}
SomeLines == FewLines \cup {<<"BFPO", "c/o", "012">>, <<"GAMBIA">>, <<"S", "Georgia">>}
AllLines == SomeLines \cup {
  <<>>, <<"BFPO">>, <<"DDR">>, <<"DU">>, <<"NFA">>, <<"no", "fixed", "abode">>, <<"(bis">>, <<"--">>}

WrittenUKAddresses ==
  UNION {[1..n -> AllLines] : n \in 0..3} \cup [1..4 -> SomeLines] \cup [1..5 -> FewLines]

AskedTickets == {
  [p1 |-> TRUE, org_type |-> None, user_created_at |-> None, notify_ticket_type |-> <<"technical">>,
   custom_topics |-> <<>>, requester_sees_message_content |-> FALSE, message_as_html |-> FALSE,
   email_ccs |-> {}, user_email |-> None],
  [p1 |-> FALSE, org_type |-> <<"local">>, user_created_at |-> <<23>>, notify_ticket_type |-> None,
   custom_topics |-> <<[id |-> "topic", value |-> <<"letters">>]>>,
   requester_sees_message_content |-> TRUE, message_as_html |-> TRUE,
   email_ccs |-> {"colleague"}, user_email |-> <<"user">>]}

TwoFilesOrOneTwice == {<<"screenshot", "log">>, <<"log", "log">>}

(* What each names in every country's table, it finds, in whatever case    *)
(* and with or without its article; what ended without a successor, or is  *)
(* a number, it does not.                                                  *)
ASSUME CountriesAreFound ==
  /\ \A n \in DOMAIN Tables : ~HasDigit(Tables[n][1]) /\ CountryOf(Tables[n][1]) # NotFound
  /\ \A n \in DOMAIN ADDITIONAL_SYNONYMS :
       CountryOf(ADDITIONAL_SYNONYMS[n][1]) = ADDITIONAL_SYNONYMS[n][2]
  /\ \A n \in DOMAIN UK_ISLANDS_LIST : CountryOf(UK_ISLANDS_LIST[n]) = UK
  /\ \A n \in DOMAIN Graph :
       LET name == Graph[n].name
       IN /\ Head(name) \in {"the", "yr", "y"} => CountryOf(Tail(name)) = CountryOf(name)
          /\ find_canonical[n] \in ToSet(UK_ISLANDS_LIST) => CountryOf(name) = UK
          /\ HasDigit(name) => CountryOf(name) = NotFound

AddressStart ==
  /\ address = PostalAddressOf(<<>>) /\ given = address
  /\ allow_international_letters = FALSE /\ stored = FALSE

Init ==
  /\ part \in {"timings", "files", "addresses", "desk"}
  /\ LettersInit
  /\ MoveInit
  /\ ZendeskInit
  /\ part # "timings" =>
       /\ postage = "netherlands" /\ holidays = {}
       /\ created = [day |-> 0, minute |-> 0, second |-> 0]
  /\ \/ part = "addresses" /\ UKAddressInit
     \/ part # "addresses" /\ AddressStart

Next ==
  /\ UNCHANGED part
  /\ \/ part = "timings" /\ LettersNext /\ UNCHANGED <<move_vars, uk_vars, zendesk_vars>>
     \/ part = "files" /\ MoveNext /\ UNCHANGED <<letters_vars, uk_vars, zendesk_vars>>
     \/ part = "addresses" /\ UKAddressNext /\ UNCHANGED <<letters_vars, move_vars, zendesk_vars>>
     \/ part = "desk" /\ ZendeskNext /\ UNCHANGED <<letters_vars, move_vars, uk_vars>>

Spec == Init /\ [][Next]_<<part, letters_vars, move_vars, uk_vars, zendesk_vars>>

Ahead == {-2, -1, 2}

Interchangeable == Permutations(Movers) \cup Permutations(Clients)
=============================================================================
