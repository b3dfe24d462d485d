------------------------------ MODULE RecipientCSV ------------------------------
(***************************************************************************)
(* recipients.py, RecipientCSV and Row, for text messages, with the parts  *)
(* of template.py and field.py that measure a row's message: a spreadsheet *)
(* is read row by row, and one template, which its owner has used before,  *)
(* is given the values of each row in turn.                                *)
(*                                                                         *)
(* A value is the length of a text: Empty, Blank (gone once it is          *)
(* stripped) or more, that of Yes being one that means so.  Of recipients  *)
(* it also says whether it is no phone number, Wrong, or one Elsewhere. The  *)
(* data of a cell is <<>> for None, the value, or a list of values.        *)
(***************************************************************************)
EXTENDS Insensitive

CONSTANTS
  Spreadsheets,  \* records of a header, items, and rows, sequences of values
  Content,       \* sequence of placeholders: a name and, if it is conditional,
                 \* its text, which may be a name as well
  Recipient,     \* the recipient column's key
  Yes, Wrong, Elsewhere,
  Services,      \* what may be sent and to whom
  PrefixLengths,      \* lengths; 0 for no prefix
  SMS_CHAR_COUNT_LIMIT,
  RowLimits,     \* what max_rows may be
  max_errors_shown, max_initial_rows_shown

Empty == 0
Blank == -1
Unset == -1      \* there is no such attribute

Placeholders == FromIterable([n \in DOMAIN Content |-> Content[n].name])

NoHeader == [key |-> 0, spelling |-> 0]
Unconditional == [key |-> 0, spelling |-> 0]
Unheaded == [key |-> -1, spelling |-> -1]  \* an empty text as a heading

(* Nothing but NoHeader has its key, and no placeholder that of Unheaded.  *)
ASSUME RecipientAssumption ==
  /\ Recipient \notin KeysOf(Placeholders)
  /\ Recipient \notin {NoHeader.key, Unheaded.key} /\ Unheaded.key \notin KeysOf(Placeholders)
  /\ PrefixLengths \subseteq Nat /\ RowLimits \subseteq Nat
  /\ max_errors_shown \in Nat \ {0}
  /\ Content \in Seq(ToSet(Content))
  /\ \A placeholder \in ToSet(Content) :
       /\ placeholder.name.key # NoHeader.key
       /\ placeholder.text # Unconditional => placeholder.text.key # NoHeader.key

ASSUME SpreadsheetsAssumption ==
  \A sheet \in Spreadsheets :
    /\ sheet.header \in Seq(ToSet(sheet.header)) /\ NoHeader.key \notin KeysOf(sheet.header)
    /\ sheet.rows \in Seq(Seq(Nat \cup {Blank}))

ASSUME ServicesAssumption ==
  \A service \in Services :
    /\ service.remaining_messages \in Int
    /\ service.remaining_international_sms_messages \in Int

VARIABLES
  file, max_rows,
  rows,          \* those built so far
  template       \* values, prefix, cached unsanitised_content and content_count

recipients_vars == <<file, max_rows, rows, template>>

-----------------------------------------------------------------------------
(* The template.                                                           *)

NoValues == [key \in {} |-> <<>>]

AddPrefix(prefix, length) ==
  IF prefix = 0 THEN length
  ELSE IF length = 0 THEN prefix + 1
  ELSE prefix + 2 + length

Known(values, key) == key \in DOMAIN values /\ values[key] # <<>>

Length(data) == FoldLeft(LAMBDA n, value : n + value, 0, data)

Present(data) ==
  FoldLeft(LAMBDA some, value : IF value = Empty THEN some ELSE Append(some, value), <<>>, data)

str2bool(data) == Present(data) = <<Yes>>

(* The text of a conditional placeholder, as the value of that name if     *)
(* there is one.                                                           *)
get_conditional_body(values, placeholder) ==
  LET text == placeholder.text.key
  IN IF ~str2bool(values[placeholder.name.key]) THEN 0
     ELSE IF Known(values, text) THEN Length(values[text]) ELSE 1

(* A placeholder without a value stays in the text; a list is put into a   *)
(* sentence.                                                               *)
replace_match(values, placeholder) ==
  IF ~Known(values, placeholder.name.key) THEN 1
  ELSE IF placeholder.text # Unconditional THEN get_conditional_body(values, placeholder)
  ELSE Length(values[placeholder.name.key])

(* With no values at all nothing is counted for placeholders.              *)
BodyLength(values) ==
  IF values = NoValues THEN 0
  ELSE FoldLeft(LAMBDA n, placeholder : n + replace_match(values, placeholder), 0, Content)

(* A list is no text: if it is to be that of a conditional placeholder,    *)
(* re.sub raises.                                                          *)
ReplacementRaises(values) ==
  \E n \in DOMAIN Content :
    LET name == Content[n].name.key
        text == Content[n].text.key
    IN /\ Content[n].text # Unconditional
       /\ Known(values, name) /\ str2bool(values[name])
       /\ Known(values, text) /\ Len(values[text]) > 1

(* Mutant of Reset: the count stays.                                       *)
ResetContent(t) == [t EXCEPT !.unsanitised_content = Unset]

Reset(t) == [t EXCEPT !.unsanitised_content = Unset, !.content_count = Unset]

SetValues(t, values) == [Reset(t) EXCEPT !.values = values]

unsanitised_content(t) ==
  IF t.unsanitised_content # Unset THEN t
  ELSE [t EXCEPT !.unsanitised_content = AddPrefix(t.prefix, BodyLength(t.values))]

content_count(t) ==
  IF t.content_count # Unset THEN t
  ELSE LET u == unsanitised_content(t)
       IN [u EXCEPT !.content_count = u.unsanitised_content]

content_count_without_prefix(t) ==
  LET count == content_count(t).content_count
  IN IF t.prefix # 0 THEN Max({count - t.prefix - 2, 0}) ELSE count

-----------------------------------------------------------------------------
(* The columns.                                                            *)

RecipientHeader(item) == item.key = Recipient

(* The columns of a row up to the last that is not empty.                  *)
Used(row) == Max({n \in DOMAIN row : row[n] # Empty} \cup {0})

index_of_first_empty_column == Max({Used(row) : row \in ToSet(file.rows)} \cup {0})

(* Mutant of column_headers: no header twice.                              *)
column_headers_once == AddPairsSpelt(<<>>, file.header)

column_headers ==
  LET populated == SubSeq(file.header, 1,
                          Min({index_of_first_empty_column, Len(file.header)}))
      empty == SubSeq(file.header, Len(populated) + 1, Len(file.header))
  IN AddPairsSpelt(populated, empty)

length_of_widest_row == Max({index_of_first_empty_column, Len(column_headers)})

DataOf(value) == IF value \in {Empty, Blank} THEN <<>> ELSE <<value>>

(* insert_or_append_to_dict, whose keys are spellings; nothing at all is   *)
(* not put anywhere.                                                       *)
InsertOrAppend(dict, item, value) ==
  IF item = Unheaded /\ DataOf(value) = <<>> THEN dict
  ELSE IF item \notin {entry.item : entry \in ToSet(dict)}
  THEN Append(dict, [item |-> item, data |-> DataOf(value)])
  ELSE [n \in DOMAIN dict |->
          IF dict[n].item # item THEN dict[n]
          ELSE [item |-> item,
                data |-> IF dict[n].data = <<>> THEN DataOf(value)
                         ELSE Append(dict[n].data, Max({value, Empty}))]]

Overwrite(dict, item, value) ==
  InsertOrAppend([n \in DOMAIN dict |->
                    IF dict[n].item = item THEN [dict[n] EXCEPT !.data = <<>>]
                    ELSE dict[n]],
                 item, value)

(* A second recipient replaces the first.                                  *)
Put(dict, item, value) ==
  IF RecipientHeader(item) THEN Overwrite(dict, item, value)
  ELSE InsertOrAppend(dict, item, value)

FilledIn(headers, row) ==
  FoldLeftDomain(LAMBDA dict, n : Put(dict, headers[n], row[n]), <<>>, headers)

(* The headers beyond the end of the row.                                  *)
Padded(dict, headers) ==
  FoldLeft(LAMBDA known, item : InsertOrAppend(known, item, Empty), dict, headers)

(* The columns of the row with a header, what is missing at its end, and   *)
(* what is beyond the last header.                                         *)
OutputDict(row) ==
  LET width == Len(column_headers)
      filled == FilledIn(SubSeq(column_headers, 1, Min({width, Len(row)})), row)
      extra == SubSeq(row, width + 1, Min({length_of_widest_row, Len(row)}))
  IN IF extra = <<>> THEN Padded(filled, SubSeq(column_headers, Len(row) + 1, width))
     ELSE Append(filled, [item |-> NoHeader, data |-> extra])

raw_recipient_columns == {n \in DOMAIN file.header : RecipientHeader(file.header[n])}

duplicate_recipient_column_headers == Cardinality(raw_recipient_columns) > 1

missing_column_headers == (KeysOf(Placeholders) \cup {Recipient}) \ {item.key : item \in ToSet(file.header)}

-----------------------------------------------------------------------------
(* The rows.                                                               *)

NoRow == [data |-> NoValues, message_too_long |-> FALSE, message_empty |-> FALSE]

(* Row.__init__, with should_validate.                                     *)
RowOf(data, t) ==
  [data |-> data,
   message_too_long |-> content_count_without_prefix(t) > SMS_CHAR_COUNT_LIMIT,
   message_empty |-> content_count_without_prefix(t) = 0]

NoFile == [header |-> <<>>, rows |-> <<>>]

(* _get_rows yields the next row, or None beyond max_rows; what it raises  *)
(* leaves no spreadsheet, as the constructor reads all rows.               *)
BuildRow ==
  /\ Len(rows) < Len(file.rows)
  /\ IF Len(rows) >= max_rows
     THEN rows' = Append(rows, NoRow) /\ UNCHANGED <<template, file>>
     ELSE LET data == DictOf(OutputDict(file.rows[Len(rows) + 1]))
              given == SetValues(template, data)
          IN IF ReplacementRaises(data)
             THEN rows' = <<>> /\ file' = NoFile /\ template' = given
             ELSE /\ rows' = Append(rows, RowOf(data, given))
                  /\ template' = content_count(given)
                  /\ UNCHANGED file
  /\ UNCHANGED max_rows

(* validate, of recipient_validation/notifynl/phone_number.py.             *)
Valid(value, service) ==
  value # Wrong /\ (value = Elsewhere => service.allow_international_sms)

(* _get_error_for_field, of cells that are not ignored.                    *)
CellError(key, data, service) ==
  IF key = Recipient /\ duplicate_recipient_column_headers THEN "none"
  ELSE IF key \in KeysOf(Placeholders) \cup {Recipient} /\ data = <<>> THEN "missing"
  ELSE IF key = Recipient /\ ~Valid(Head(data), service) THEN "bad recipient"
  ELSE "none"

Errors(row, service) ==
  {CellError(key, row.data[key], service) : key \in DOMAIN row.data} \ {"none"}

has_error(row, service) ==
  row.message_too_long \/ row.message_empty \/ Errors(row, service) # {}

(* What is None, or has no cells, is no row to look at.                    *)
_filter_rows == Where(rows, {row \in ToSet(rows) : row.data # NoValues})

recipient(row) == IF Recipient \in DOMAIN row.data THEN row.data[Recipient] ELSE <<>>

(* What the checks of a file say; get_phone_number_object cannot be asked  *)
(* about a missing recipient, nor format_recipient about a list.           *)
Answer(bad) == IF bad THEN "yes" ELSE "no"

NotAllowed(service) ==
  IF service.guestlist = {} THEN "no"
  ELSE IF \E row \in ToSet(_filter_rows) : Len(recipient(row)) > 1 THEN "raises"
  ELSE Answer(\E row \in ToSet(_filter_rows) : ToSet(recipient(row)) \cap service.guestlist = {})

International ==
  {n \in DOMAIN rows : rows[n].data # NoValues /\ recipient(rows[n]) = <<Elsewhere>>}

more_international_sms_than_can_send(service) ==
  IF \E row \in ToSet(_filter_rows) : Len(recipient(row)) # 1 THEN "raises"
  ELSE Answer(Cardinality(International)
                > Max({service.remaining_international_sms_messages, 0}))

more_rows_than_can_send(service) == Len(rows) > service.remaining_messages

too_many_rows == Len(rows) > max_rows

OfTheFile(service) ==
  <<Answer(missing_column_headers # {}), Answer(duplicate_recipient_column_headers),
    Answer(more_rows_than_can_send(service)), Answer(too_many_rows), NotAllowed(service)>>

OfTheRows(service) == Answer(\E row \in ToSet(_filter_rows) : has_error(row, service))

(* Mutant of Checks: what is counted comes before what is looked at.       *)
ChecksCountFirst(service) ==
  OfTheFile(service) \o <<more_international_sms_than_can_send(service), OfTheRows(service)>>

Checks(service) ==
  OfTheFile(service) \o <<OfTheRows(service), more_international_sms_than_can_send(service)>>

(* One after the other, until one has something to say.                    *)
has_errors(service) ==
  LET checks == Checks(service)
      said == {n \in DOMAIN checks : checks[n] # "no"}
  IN IF said = {} THEN "no" ELSE checks[Min(said)]

-----------------------------------------------------------------------------
(* What is shown of the file: rows with something wrong, in their order,   *)
(* and what a sender takes from one without.                               *)

has_recipient_columns == Recipient \in KeysOf(file.header)

has_bad_recipient(row, service) ==
  /\ Recipient \in DOMAIN row.data
  /\ CellError(Recipient, row.data[Recipient], service) = "bad recipient"

has_missing_data(row, service) == "missing" \in Errors(row, service)

rows_with_errors(service) ==
  Where(_filter_rows, {row \in ToSet(rows) : has_error(row, service)})
rows_with_bad_recipients(service) ==
  Where(_filter_rows, {row \in ToSet(rows) : has_bad_recipient(row, service)})
rows_with_missing_data(service) ==
  Where(_filter_rows, {row \in ToSet(rows) : has_missing_data(row, service)})
rows_with_message_too_long == Where(_filter_rows, {row \in ToSet(rows) : row.message_too_long})
rows_with_empty_message == Where(_filter_rows, {row \in ToSet(rows) : row.message_empty})

FirstOf(shown, n) == SubSeq(shown, 1, Min({n, Len(shown)}))

displayed_rows(service) ==
  IF rows_with_errors(service) # <<>> /\ missing_column_headers = {}
  THEN FirstOf(rows_with_errors(service), max_errors_shown)
  ELSE FirstOf(rows, max_initial_rows_shown)

personalisation(row) ==
  [key \in DOMAIN row.data \cap (KeysOf(Placeholders) \cup {Recipient}) |-> row.data[key]]

-----------------------------------------------------------------------------
(* The owner of the template, before the spreadsheet is read.              *)

OwnerSetsValues(values) ==
  /\ rows = <<>>
  /\ template' = SetValues(template, values)
  /\ UNCHANGED <<file, max_rows, rows>>

OwnerSetsPrefix(prefix) ==
  /\ rows = <<>>
  /\ template' = [template EXCEPT !.prefix = prefix]
  /\ UNCHANGED <<file, max_rows, rows>>

OwnerReads ==
  /\ rows = <<>>
  /\ template' \in {unsanitised_content(template), content_count(template)}
  /\ UNCHANGED <<file, max_rows, rows>>

(* Nothing is left to read.                                                *)
Done == Len(rows) = Len(file.rows)

Finish == Done /\ UNCHANGED recipients_vars

RecipientsInit ==
  /\ file \in Spreadsheets /\ max_rows \in RowLimits /\ rows = <<>>
  /\ template \in [values : {NoValues}, prefix : PrefixLengths,
                   unsanitised_content : {Unset}, content_count : {Unset}]

RecipientsNext ==
  \/ BuildRow
  \/ Finish
  \/ OwnerReads
  \/ \E prefix \in PrefixLengths : OwnerSetsPrefix(prefix)
  \/ \E length \in {Empty, SMS_CHAR_COUNT_LIMIT + 1} :
       OwnerSetsValues([key \in KeysOf(Placeholders) |-> DataOf(length)])

RecipientsSpec == RecipientsInit /\ [][RecipientsNext]_recipients_vars

-----------------------------------------------------------------------------
(* Properties.                                                             *)

(* Whether a row's message is too long or empty depends on its own values  *)
(* only: not on those of the row before, on what was cached before, or on  *)
(* the prefix.                                                             *)
RowsAreMeasuredAlone ==
  \A n \in DOMAIN rows :
    rows[n] # NoRow =>
      LET length == BodyLength(rows[n].data)
      IN /\ rows[n].message_too_long <=> length > SMS_CHAR_COUNT_LIMIT
         /\ rows[n].message_empty <=> length = 0

(* Row.get: a row has no cell for a heading that nothing was put under.    *)
CellData(row, key) == IF key \in DOMAIN row.data THEN row.data[key] ELSE <<>>

HasKey(n, key) == n \in DOMAIN file.header /\ file.header[n].key = key

(* Values in the n-th row under a key, in its columns' order.              *)
ValuesUnder(row, key) ==
  LET columns == [n \in DOMAIN row |->
                    IF HasKey(n, key) /\ row[n] # Blank THEN row[n] ELSE Empty]
  IN Present(columns)

(* The phone number that stands in the n-th row, and for each placeholder  *)
(* at least one of the values that do.                                     *)
IsSendable(n) ==
  LET data == personalisation(rows[n])
  IN /\ DOMAIN data = KeysOf(Placeholders) \cup {Recipient}
     /\ data[Recipient] = ValuesUnder(file.rows[n], Recipient)
     /\ data[Recipient] # <<Wrong>>
     /\ \A key \in KeysOf(Placeholders) :
          LET values == ToSet(Present(data[key]))
          IN values # {} /\ values \subseteq ToSet(ValuesUnder(file.rows[n], key))

(* No more than the service may send, and to nobody that it may not.       *)
WithinTheService(service) ==
  /\ Len(rows) <= service.remaining_messages
  /\ LET number(n) == Head(rows[n].data[Recipient])
         abroad == {n \in DOMAIN rows : number(n) = Elsewhere}
     IN /\ \A n \in DOMAIN rows : service.guestlist # {} => number(n) \in service.guestlist
        /\ abroad # {} => service.allow_international_sms
        /\ Cardinality(abroad) <= Max({service.remaining_international_sms_messages, 0})

(* Something wrong with the file, or one of the rows that are displayed,   *)
(* each of which is in a list that says what is wrong with it.             *)
SomethingIsShown(service) ==
  LET lists == {rows_with_bad_recipients(service), rows_with_missing_data(service),
                rows_with_message_too_long, rows_with_empty_message}
      listed == UNION {ToSet(list) : list \in lists}
  IN /\ has_recipient_columns <=> Recipient \notin missing_column_headers
     /\ listed = ToSet(rows_with_errors(service))
     /\ \/ "yes" \in ToSet(OfTheFile(service))
        \/ more_international_sms_than_can_send(service) = "yes"
        \/ ToSet(displayed_rows(service)) \cap listed # {}

(* Of every file that was read it can be said whether it has errors, and   *)
(* whoever sends one that has none sends no more than the service may, to  *)
(* nobody that it may not, and has for each row the phone number that      *)
(* stands in it and for each placeholder at least one of the values that   *)
(* do; of one that has, something wrong is shown.                          *)
ErrorFreeFilesAreSendable ==
  Done /\ file # NoFile =>
   \A service \in Services :
     LET errors == has_errors(service)
     IN /\ errors # "raises"
        /\ errors = "no" => (\A n \in DOMAIN rows : IsSendable(n)) /\ WithinTheService(service)
        /\ errors = "yes" => SomethingIsShown(service)

(* What stands in a row is in its data, but for what a column of the same  *)
(* heading spelt otherwise, or a second recipient column, replaces.        *)
OneSpelling(key) == Cardinality({item \in ToSet(file.header) : item.key = key}) = 1

NoValueIsLost ==
  \A n \in DOMAIN rows :
    rows[n] # NoRow =>
      /\ \A key \in KeysOf(file.header) :
           OneSpelling(key) /\ (key = Recipient => ~duplicate_recipient_column_headers) =>
             Present(CellData(rows[n], key)) = ValuesUnder(file.rows[n], key)
      /\ LET row == file.rows[n]
         IN Used(row) > Len(file.header) =>
              \A c \in Len(file.header) + 1..Used(row) :
                \E d \in DOMAIN rows[n].data[NoHeader.key] :
                  rows[n].data[NoHeader.key][d] = row[c]
=============================================================================
