SPECIFICATION Spec
CONSTANTS
  Sets = {a, b}
  Items <- Headings
  Given <- FromElsewhere
  NoBound = NoBound
  Spreadsheets <- Written
  Content <- NameAndPerhapsAgain
  Recipient = 1
  Yes = 1
  Elsewhere = 2
  Wrong = 3
  Services <- ThreeServices
  PrefixLengths = {0, 3}
  SMS_CHAR_COUNT_LIMIT = 2
  RowLimits = {1, 2}
  max_errors_shown = 1
  max_initial_rows_shown = 1
  Addresses <- WrittenAddresses
  Postcodes <- TwoPostcodes
  Nederland <- Dutch
  LeftOut <- Unwritten
  CanonicalName <- Foreigners
  Retouradres = "Retouradres"
  Labels <- DatumOnderwerp
  InvalidStarts <- Brackets
  MIN_LINES = 2
  MAX_LINES = 3
  Texts <- WrittenNumbers
  Home = 3
  Plan <- NumberingPlan
  Plus = 10
  TvPrefix <- TwoTwo
  ShortLength = 2
  EMERGENCY_NUMBERS <- OneOne
  American = 2
  AreaLength = 2
  INTERNATIONAL_BILLING_RATES <- Rates
  Templates <- EmailsAndLetters
  GivenValues <- AllGiven
  address_lines <- AddressLines
  PostcodeItem <- PostcodeLine
INVARIANTS
  InPlaceIsAsNew
  RowsAreMeasuredAlone
  ErrorFreeFilesAreSendable
  NoValueIsLost
  StoredAddressesStay
  ValidAddressesGoOutWhole
  NormalFormsStay
  SetsReadAsListsAndAsSets
  WritingsAreOneNumber
  AnswersAreOfTheText
  AddressIsShown
