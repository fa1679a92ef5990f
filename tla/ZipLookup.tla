----------------------------- MODULE ZipLookup -----------------------------
(***************************************************************************)
(* resolve_region: the region of a ZIP code, by the curated table or by    *)
(* its three-digit prefix, or of a region code.  A ZIP code is a number    *)
(* (the query parameter is checked to be five digits).                     *)
(***************************************************************************)
EXTENDS Integers, FiniteSets

CONSTANT Absent  \* a query parameter that is not given

NotCovered == "not covered"  \* region=None in the table

(* seed/data.py                                                            *)
Regions ==
  {"CISO", "ERCO", "ISNE", "NYIS", "PJM", "MISO", "SWPP", "SOCO", "FPL", "DUK",
   "TVA", "BPAT", "AZPS", "PSCO", "LDWP"}

Curated == {
  <<10001, "NYIS", "dominant">>, <<11201, "NYIS", "dominant">>, <<94103, "CISO", "exact">>,
  <<90012, "LDWP", "dominant">>, <<90210, "CISO", "approximate">>, <<77002, "ERCO", "exact">>,
  <<75201, "ERCO", "exact">>, <<78701, "ERCO", "dominant">>, <<60601, "PJM", "dominant">>,
  <<2108, "ISNE", "exact">>, <<33101, "FPL", "dominant">>, <<30303, "SOCO", "dominant">>,
  <<85001, "AZPS", "dominant">>, <<98101, "BPAT", "approximate">>,
  <<80202, "PSCO", "dominant">>, <<28202, "DUK", "dominant">>, <<37201, "TVA", "dominant">>}

(* Prefix ranges, both ends included.  Neither list has two ranges that    *)
(* share a prefix (ZipsResolve checks that), so their order is left out.   *)
Overrides == {<<900, 901, "LDWP">>, <<790, 794, "SWPP">>, <<798, 799, "AZPS">>}

PrefixRanges == {
  <<5, 5, "NYIS">>, <<6, 9, NotCovered>>, <<10, 27, "ISNE">>, <<28, 29, "ISNE">>,
  <<30, 38, "ISNE">>, <<39, 49, "ISNE">>, <<50, 59, "ISNE">>, <<60, 69, "ISNE">>,
  <<70, 89, "PJM">>, <<90, 99, NotCovered>>, <<100, 149, "NYIS">>, <<150, 196, "PJM">>,
  <<197, 199, "PJM">>, <<200, 205, "PJM">>, <<206, 219, "PJM">>, <<220, 246, "PJM">>,
  <<247, 268, "PJM">>, <<270, 289, "DUK">>, <<290, 299, "DUK">>, <<300, 319, "SOCO">>,
  <<320, 349, "FPL">>, <<350, 369, "SOCO">>, <<370, 385, "TVA">>, <<386, 397, "MISO">>,
  <<398, 399, "SOCO">>, <<400, 427, "TVA">>, <<430, 459, "PJM">>, <<460, 479, "MISO">>,
  <<480, 499, "MISO">>, <<500, 528, "MISO">>, <<530, 549, "MISO">>, <<550, 567, "MISO">>,
  <<570, 577, "SWPP">>, <<580, 588, "SWPP">>, <<590, 599, "BPAT">>, <<600, 629, "PJM">>,
  <<630, 658, "MISO">>, <<660, 679, "SWPP">>, <<680, 693, "SWPP">>, <<700, 714, "MISO">>,
  <<716, 729, "MISO">>, <<730, 749, "SWPP">>, <<750, 799, "ERCO">>, <<800, 816, "PSCO">>,
  <<820, 831, "PSCO">>, <<832, 838, "BPAT">>, <<840, 847, "PSCO">>, <<850, 865, "AZPS">>,
  <<870, 885, "AZPS">>, <<889, 898, "CISO">>, <<900, 961, "CISO">>, <<962, 966, NotCovered>>,
  <<967, 968, NotCovered>>, <<969, 969, NotCovered>>, <<970, 979, "BPAT">>,
  <<980, 994, "BPAT">>, <<995, 999, NotCovered>>}

Containing(table, p) == {range \in table : p \in range[1]..range[2]}
RegionIn(table, p) == (CHOOSE range \in Containing(table, p) : TRUE)[3]

RegionForZipBaseFirst(zip) ==  \* mutant: the base ranges are looked up first
  LET p == zip \div 100
  IN  IF Containing(PrefixRanges, p) # {} THEN RegionIn(PrefixRanges, p)
      ELSE IF Containing(Overrides, p) # {} THEN RegionIn(Overrides, p)
      ELSE NotCovered

RegionForZip(zip) ==
  LET p == zip \div 100
  IN  IF Containing(Overrides, p) # {} THEN RegionIn(Overrides, p)
      ELSE IF Containing(PrefixRanges, p) # {} THEN RegionIn(PrefixRanges, p)
      ELSE NotCovered

KnownRegion(code, confidence) ==
  IF code \in Regions
    THEN [status |-> "200", region |-> code, confidence |-> confidence]
    ELSE [status |-> "404", region |-> code, confidence |-> confidence]

ResolveRegion(zip, region) ==
  LET curated == {entry \in Curated : entry[1] = zip}
  IN  IF (zip = Absent) = (region = Absent)
        THEN [status |-> "400", region |-> Absent, confidence |-> Absent]
      ELSE IF zip = Absent THEN KnownRegion(region, Absent)
      ELSE IF curated # {}
        THEN LET entry == CHOOSE e \in curated : TRUE IN KnownRegion(entry[2], entry[3])
      ELSE KnownRegion(RegionForZip(zip), "approximate")
=============================================================================
