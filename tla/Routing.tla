-------------------------------- MODULE Routing --------------------------------
(***************************************************************************)
(* Where a cash-out may go: the country and provider tables, what the      *)
(* catalog and the payout quote tell a client, and the provider that       *)
(* cash_out_mobile_money chooses or refuses.  The catalog, the quote and   *)
(* the cash-out read four tables that are written down separately; the     *)
(* properties say in which cases they agree.                               *)
(*                                                                         *)
(* A client asks for a quote and cashes out afterwards; an operator        *)
(* restarts the server with other MM_ENABLED_PROVIDERS at any time.        *)
(***************************************************************************)
EXTENDS Sequences, Functions

VARIABLES
  enabled,   \* MM_ENABLED_PROVIDERS of the running server
  quote      \* the payout quote a client holds, and the settings it was made under

CountryCodes == {"TG", "BJ", "BF", "ML", "GH"}     \* those a request may name
Providers == {"MOMO", "TMONEY", "FLOOZ", "THUNES"} \* those a request may name
Configurable == Providers \cup {"MTN_MOMO"}        \* those a setting may name
MobileMoney == "MOBILE_MONEY_PAYOUT"
Methods == {MobileMoney, "NEPXY_WALLET", "BANK", "CASH_PICKUP"}

Africa ==
  {"AO", "BF", "BI", "BJ", "BW", "CD", "CF", "CG", "CI", "CM", "CV", "DJ", "DZ", "EG",
   "ER", "ET", "GA", "GM", "GH", "GN", "GQ", "GW", "KE", "KM", "LS", "LR", "LY", "MA",
   "MG", "ML", "MR", "MU", "MW", "MZ", "NA", "NE", "NG", "RW", "SC", "SD", "SN", "SL",
   "SO", "SS", "ST", "SZ", "TD", "TG", "TN", "TZ", "UG", "ZA", "ZM", "ZW"}
Europe ==
  {"AL", "AD", "AM", "AT", "AZ", "BA", "BE", "BG", "BY", "CH", "CY", "CZ", "DE", "DK",
   "EE", "ES", "FI", "FR", "GB", "GE", "GR", "HR", "HU", "IE", "IS", "IT", "KZ", "LI",
   "LT", "LU", "LV", "MD", "ME", "MK", "MT", "NL", "NO", "PL", "PT", "RO", "RS", "RU",
   "SE", "SI", "SK", "SM", "TR", "UA", "VA", "XK"}
NorthAmerica == {"CA"}
Supported == Africa \cup Europe \cup NorthAmerica

-----------------------------------------------------------------------------
(* app.catalog.destinations: African countries only.                        *)
TogoToo == {"GH", "BJ", "TG"}
AvailableCountries == {"GH", "BJ"}

ProvidersByCountry(country) ==
  CASE country = "GH" -> <<"MOMO">>
    [] country = "BJ" -> <<"MOMO", "TMONEY", "FLOOZ">>
    [] country = "TG" -> <<"TMONEY", "FLOOZ", "THUNES">>
    [] OTHER -> <<"THUNES">>

Destination(country) ==
  [country |-> country, available |-> country \in AvailableCountries,
   methods |-> {MobileMoney, "NEPXY_WALLET"}, providers |-> ProvidersByCountry(country)]

\* list_destinations; the filters are on when not None.
ListDestinations(available, methods) ==
  {country \in Africa : /\ Destination(country).available \in available
                        /\ methods \subseteq Destination(country).methods}

-----------------------------------------------------------------------------
(* app.catalog.enablement and services.corridors.                           *)
EnabledDestinations == {"GH", "BJ"}

EnabledProviders(country) ==
  CASE country = "GH" -> <<"MOMO", "THUNES">>
    [] country = "BJ" -> <<"MOMO", "TMONEY", "FLOOZ">>
    [] OTHER -> <<>>

ProviderEnabled(country, provider) == provider \in Range(EnabledProviders(country))

AvailableAnywhere(country, provider) == country \in EnabledDestinations
ProviderAvailable(country, provider) ==
  country \in EnabledDestinations /\ ProviderEnabled(country, provider)

\* validate_cash_out_corridor.
Corridor(country, provider) ==
  country \in EnabledDestinations /\ ProviderEnabled(country, provider)

\* get_provider.
HasAdapter(provider) == provider \in {"TMONEY", "FLOOZ", "MOMO", "MTN", "MTN_MOMO", "THUNES"}

-----------------------------------------------------------------------------
(* routes/payments.py.                                                      *)
Canonical(provider) == IF provider \in {"MTN", "MTN_MOMO"} THEN "MOMO" ELSE provider

\* _providers_for_destination: the settings filter the destination's list, and
\* in Ghana MOMO comes first, or THUNES where MOMO is not enabled.
Kept(country, on) ==
  SelectSeq(ProvidersByCountry(country), LAMBDA p : on = {} \/ p \in on)
Others(list) == SelectSeq(list, LAMBDA p : p # "MOMO")

Ordered(country, on) ==
  CASE country = "GH" /\ "MOMO" \in on -> <<"MOMO">> \o Others(Kept(country, on))
    [] country = "GH" /\ "MOMO" \notin on /\ "THUNES" \in on \ Range(Kept(country, on)) ->
         <<"THUNES">> \o Kept(country, on)
    [] OTHER -> Kept(country, on)

ProvidersFor(country) == Ordered(country, {Canonical(p) : p \in enabled})

\* What the two filters keep.  It has no parameter, so TLC decides it; the
\* provers, which know nothing of SelectSeq, take it from here.
ASSUME FiltersKeep ==
  \A country \in CountryCodes, on \in SUBSET Providers :
    LET base == Kept(country, on)
    IN /\ base \in Seq(Providers) /\ Others(base) \in Seq(Providers)
       /\ Range(base) = {p \in Range(ProvidersByCountry(country)) : on = {} \/ p \in on}
       /\ Range(Others(base)) = Range(base) \ {"MOMO"}

\* payout_quote.
Quote(country) ==
  [country |-> country, available |-> Destination(country).available,
   providers |-> ProvidersFor(country), under |-> enabled]

\* _choose_provider_from_list: THUNES is preferred outside Ghana.
Choose(providers, country) ==
  IF country # "GH" /\ "THUNES" \in Range(providers) THEN "THUNES" ELSE Head(providers)

\* What a cash-out asks for.  The country comes as destination_country or as
\* the older country, which the settings do not filter; provider and method
\* may be left out ("").
Forms == [byDestination : BOOLEAN, country : CountryCodes,
          provider : Providers \cup {""}, method : Methods \cup {""}]

Offers(f) ==
  IF f.byDestination THEN ProvidersFor(f.country) ELSE EnabledProviders(f.country)

Resolve(f) ==
  CASE f.provider # "" -> Canonical(f.provider)
    [] f.provider = "" /\ f.byDestination -> Choose(ProvidersFor(f.country), f.country)
    [] f.provider = "" /\ ~f.byDestination -> Head(EnabledProviders(f.country))

\* cash_out_mobile_money, up to the ledger: the checks a request passes.
Accepts(f) ==
  /\ f.country \in Supported
  /\ f.country \in Africa \/ (~f.byDestination /\ f.country \in EnabledDestinations)
  /\ f.country \in Africa => Destination(f.country).available
  /\ f.byDestination /\ f.provider # "" =>
       Canonical(f.provider) \in {Canonical(p) : p \in Range(ProvidersFor(f.country))}
  /\ f.method \in {"", MobileMoney} /\ MobileMoney \in Destination(f.country).methods
  /\ f.provider # "" \/ Offers(f) # <<>>
  /\ ProviderEnabled(f.country, Resolve(f))
  /\ HasAdapter(Resolve(f))
  /\ Corridor(f.country, Resolve(f))

Form(byDestination, country, provider) ==
  [byDestination |-> byDestination, country |-> country, provider |-> provider, method |-> ""]

-----------------------------------------------------------------------------
NoQuote == [country |-> "", available |-> FALSE, providers |-> <<>>, under |-> {}]

RouteInit == enabled \in SUBSET Configurable /\ quote = NoQuote

AskQuote == \E country \in CountryCodes : quote' = Quote(country) /\ UNCHANGED enabled

Restart == enabled' \in SUBSET Configurable /\ UNCHANGED quote

RouteNext == AskQuote \/ Restart

RouteSpec == RouteInit /\ [][RouteNext]_<<enabled, quote>>

-----------------------------------------------------------------------------
(* Properties.                                                              *)

\* A client that follows its quote is accepted with every provider the quote
\* names, and without naming one is given one of those, unless the operator
\* has changed the settings in between: the quote reads AVAILABLE_COUNTRIES
\* and PROVIDERS_BY_COUNTRY, the cash-out also ENABLED_PROVIDERS_BY_COUNTRY and
\* the corridors.
QuotesAreAccepted ==
  LET quoted == Range(quote.providers) IN
  quote.available /\ quoted # {} /\ quote.under = enabled =>
    /\ \A p \in quoted : Accepts(Form(TRUE, quote.country, p))
    /\ Accepts(Form(TRUE, quote.country, ""))
    /\ Resolve(Form(TRUE, quote.country, "")) \in quoted

\* A provider the catalog shows AVAILABLE for the country the client looks at
\* is accepted by a cash-out that names the country the older way, whatever the
\* settings have become; and the country is listed as an available destination
\* by one table as it is by the other.
AvailableIsAccepted ==
  quote # NoQuote =>
    /\ \A p \in Providers :
         ProviderAvailable(quote.country, p) =>
           /\ Accepts(Form(FALSE, quote.country, p))
           /\ Resolve(Form(FALSE, quote.country, p)) = p
    /\ quote.country \in ListDestinations({TRUE}, {MobileMoney}) <=>
         quote.country \in EnabledDestinations
=============================================================================
