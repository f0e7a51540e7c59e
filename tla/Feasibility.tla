---------------------------- MODULE Feasibility ----------------------------
(***************************************************************************)
(* The decisions of the feasibility report in market/ingest.py: which       *)
(* payloads of the archive are inputs, which instrument a product is        *)
(* referenced by, and which capabilities the evidence satisfies.            *)
(*                                                                          *)
(* Product maps a product key to [kind, schemas, role, selection,           *)
(* underlying, proxy, root, nbbo].  An archive is a record                  *)
(*   manifest    the sequence of [path, digest] lines of the SHA-256 file   *)
(*   disk        path -> digest, or Unreadable, of every file on disk       *)
(*   payloads    [product, schema, date, serial, layout, request, records,  *)
(*               damage]: damage is the number of records decoded before a  *)
(*               decoding error, NoValue for an intact payload              *)
(*   conditions  request -> a set of [date, available], or NoValue when the *)
(*               vendor's file is missing or unreadable                     *)
(*   series      rate series -> the dates with a numeric observation        *)
(*   sources     declared sources [capability, required, state]             *)
(* A result of one product on one date is [universe, audit, statistics,     *)
(* skipped, mids, reference], NoValue where nothing was ingested.           *)
(***************************************************************************)
EXTENDS Quotes

CONSTANTS Product, Dates, HeldOut, Minima, ManifestPath, ExpectedEntries, ExpectedFiles,
          Unreadable

Entries(s) == {s[i] : i \in DOMAIN s}
Definitions == "definition"
Statistics == "statistics"
QuoteSchemas == {"bbo-1m", "cbbo-1m"}

-----------------------------------------------------------------------------
(* manifest.verify_archive: every listed file is there and unaltered,       *)
(* listed once, and nothing else is on disk.                                *)

Listed(a) == {e.path : e \in Entries(a.manifest)}

\* The first line of a path is the one its digest is compared with.
ListedDigest(a, p) == a.manifest[Min({i \in DOMAIN a.manifest : a.manifest[i].path = p})].digest

Verified(a) ==
    /\ \A p \in Listed(a) : p \in DOMAIN a.disk /\ a.disk[p] = ListedDigest(a, p)
    /\ Len(a.manifest) = Cardinality(Listed(a))
    /\ DOMAIN a.disk \subseteq Listed(a) \cup {ManifestPath}
    /\ ExpectedEntries # NoValue => Cardinality(Listed(a)) = ExpectedEntries
    /\ ExpectedFiles # NoValue => Cardinality(DOMAIN a.disk) = ExpectedFiles

-----------------------------------------------------------------------------
(* discover_inputs and the vendor's condition statements.                   *)

Slot3(f) == <<f.product, f.schema, f.date>>

Candidate(f) == /\ f.layout = "dated"
                /\ f.schema \in Product[f.product].schemas
                /\ f.date \in Dates

\* Of several payloads of one product, schema and date the first is decoded.
Inputs(a) ==
    {f \in a.payloads : Candidate(f) /\
        \A g \in a.payloads : Candidate(g) /\ Slot3(g) = Slot3(f) => f.serial <= g.serial}

DeclaredSlots == UNION {{<<p, s, d>> : s \in Product[p].schemas, d \in Dates} :
                            p \in DOMAIN Product}

DiscoveryFindings(a) ==
    LET HasDirectory(p) == \E f \in a.payloads : f.product = p
    IN  {<<"product_directory_missing", p>> : p \in {q \in DOMAIN Product : ~HasDirectory(q)}}
        \cup {<<"duplicate_payload", f.product>> :
                  f \in {g \in a.payloads : Candidate(g) /\ g \notin Inputs(a)}}
        \cup {<<"expected_payload_missing", t[1]>> :
                  t \in {u \in DeclaredSlots : /\ HasDirectory(u[1])
                            /\ ~\E f \in Inputs(a) : Slot3(f) = u}}

ConditionsAvailable(a) ==
    /\ Inputs(a) # {}
    /\ \A f \in Inputs(a) :
          /\ a.conditions[f.request] # NoValue
          /\ [date |-> f.date, available |-> TRUE] \in a.conditions[f.request]

\* Statistics and quotes ahead of the definitions they are classified by.
SchemaRankReversed(schema) == CASE schema = Definitions -> 2
                                [] schema \in QuoteSchemas -> 1
                                [] schema = Statistics -> 0

SchemaRank(schema) == CASE schema = Definitions -> 0
                        [] schema \in QuoteSchemas -> 1
                        [] schema = Statistics -> 2

ReadBefore(f, g) == SchemaRank(f.schema) <= SchemaRank(g.schema)

-----------------------------------------------------------------------------
NoResult == [universe |-> NoValue, audit |-> NoValue, statistics |-> NoValue,
             skipped |-> 0, mids |-> <<>>, reference |-> NoValue]

\* _population_classifier: the population an instrument's quotes belong to.
Population(p, universe, key) ==
    IF universe = NoValue THEN Primary
    ELSE LET contracts == Contracts(universe)
         IN  CASE key \notin DOMAIN contracts -> Unclassified
               [] key \in DOMAIN contracts /\ Product[p].kind = "future" ->
                    (IF contracts[key].outright THEN Primary ELSE MultiLeg)
               [] OTHER -> Primary

\* _resolve_references: the instrument that stands for the product.
ReferenceOf(p, date, r) ==
    LET key == IF r.universe # NoValue
               THEN SelectReference(Contracts(r.universe), Product[p].selection, date)
               ELSE IF /\ Product[p].selection = SingleInstrument
                       /\ Cardinality(DOMAIN r.mids) = 1
               THEN CHOOSE k \in DOMAIN r.mids : TRUE
               ELSE NoValue
        quoted == key # NoValue /\ key \in DOMAIN r.mids
    IN  [key |-> key,
         slot |-> IF quoted THEN Max(DOMAIN r.mids[key]) ELSE NoValue,
         mid |-> IF quoted THEN r.mids[key][Max(DOMAIN r.mids[key])] ELSE NoValue]

ResolveReferences(results) ==
    [t \in DOMAIN results |->
        IF Product[t[1]].selection = NoValue THEN results[t]
        ELSE [results[t] EXCEPT !.reference = ReferenceOf(t[1], t[2], results[t])]]

\* _spot_reference: the anchor of a chain is its own underlying's, a declared
\* proxy's, or none.
SpotOf(p, date, results) ==
    LET spec == Product[p]
        Anchor(q, basis) ==
            IF \/ <<q, date>> \notin DOMAIN results
               \/ results[<<q, date>>].reference = NoValue
            THEN [basis |-> "unavailable", value |-> NoValue, nbbo |-> Product[q].nbbo]
            ELSE IF results[<<q, date>>].reference.mid = NoValue
            THEN [basis |-> "unavailable", value |-> NoValue, nbbo |-> Product[q].nbbo]
            ELSE [basis |-> basis, value |-> results[<<q, date>>].reference.mid,
                  nbbo |-> Product[q].nbbo]
    IN  IF spec.underlying # NoValue THEN Anchor(spec.underlying, "direct")
        ELSE IF spec.proxy # NoValue THEN Anchor(spec.proxy, "proxy")
        ELSE [basis |-> "unavailable", value |-> NoValue, nbbo |-> FALSE]

-----------------------------------------------------------------------------
(* Capabilities: a function from a gating check to its outcome.             *)

WithUniverse(results) == {t \in DOMAIN results : results[t].universe # NoValue}
WithAudit(results) == {t \in DOMAIN results : results[t].audit # NoValue}
Role(role) == {p \in DOMAIN Product : Product[p].role = role}

SourcesSupply(a, capability) ==
    \A s \in a.sources : s.capability = capability /\ s.required => s.state = "present"

ArchiveIntegrity(a) ==
    [verified |-> Verified(a),
     conditions |-> ConditionsAvailable(a)]

IngestionFeasibility(a, results, failures, stale) ==
    [present_once |-> DiscoveryFindings(a) = {},
     decoded |-> failures = {},
     resolved |-> \A t \in WithUniverse(results) : results[t].universe.failures = 0,
     defined |-> \A t \in WithUniverse(results) \cap WithAudit(results) :
                     InstrumentsIn(results[t].audit, Unclassified) = {},
     on_grid |-> \A t \in WithAudit(results) : results[t].audit.offGrid = 0,
     normalized |-> \A t \in DOMAIN results : results[t].skipped = 0,
     only_published |-> stale = {}]

\* The chain of one session: expiries with enough strikes paired in a minute.
PairedExpiries(r) ==
    ExpiriesWithPairs(PairedStrikes(Contracts(r.universe), r.audit), Minima.strikes)

SurfaceReadiness(a, results) ==
    LET covered == {t \in WithUniverse(results) : t[1] \in Role("cash_settled_control")}
        Paired(t) == IF results[t].audit = NoValue THEN 0 ELSE PairedExpiries(results[t])
        settled == {t \in DOMAIN results :
                        /\ t[1] \in Role("rate_control")
                        /\ results[t].statistics # NoValue
                        /\ OutrightInstruments(results[t].statistics, "settlement") # {}}
    IN  [resolved |-> \A t \in covered : results[t].universe.failures = 0,
         pairs |-> covered # {} /\ \A t \in covered : Paired(t) >= Minima.expiries,
         spot |-> covered # {},
         strip |-> Cardinality(settled) = Cardinality(Dates),
         rates |-> \A s \in DOMAIN a.series : Dates \subseteq a.series[s],
         sources |-> SourcesSupply(a, "surface")]

AmericanReadiness(a, results) ==
    LET covered == {t \in WithUniverse(results) : t[1] \in Role("primary_option_chain")}
        contracts == UNION {{<<t, k>> : k \in DOMAIN Contracts(results[t].universe)} :
                                t \in covered}
        Evidenced(field) == \A c \in contracts :
            Contracts(results[c[1]].universe)[c[2]][field] # NoValue
    IN  [nbbo |-> covered # {} /\ \A t \in covered : SpotOf(t[1], t[2], results).nbbo,
         multiplier |-> contracts # {} /\ Evidenced("multiplier"),
         style |-> contracts # {} /\ Evidenced("style"),
         sources |-> SourcesSupply(a, "american")]

AllHold(checks) == \A c \in DOMAIN checks : checks[c]

Capabilities(a, results, failures, stale) ==
    LET data == [integrity |-> AllHold(ArchiveIntegrity(a)),
                 ingestion |-> AllHold(IngestionFeasibility(a, results, failures, stale)),
                 surface |-> AllHold(SurfaceReadiness(a, results)),
                 american |-> AllHold(AmericanReadiness(a, results))]
    IN  With(data, "replication", /\ Cardinality(Dates) >= Minima.sessions
                                  /\ Cardinality(HeldOut) >= Minima.heldOut
                                  /\ AllHold(data))
=============================================================================
