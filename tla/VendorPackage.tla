---------------------------- MODULE VendorPackage ----------------------------
(***************************************************************************)
(* How a vendor package becomes an execution model: the privacy scan       *)
(* (privacy-validation/src/scanner.ts) and the loader (config-loader/src). *)
(*                                                                         *)
(* A package is a record.  vendorFile, systemFile and the valid field of   *)
(* an operation file say whether the document could be read, parsed and    *)
(* matched to its schema; ids that are sorted are numbers; a text is the   *)
(* sequence of things in it that a pattern of the scan can match; and      *)
(* files[r] says what a response asset is when it is opened.               *)
(***************************************************************************)
EXTENDS Integers, Sequences, FiniteSets, SequencesExt

NoResponse == [status |-> 0, body |-> "", delay |-> 0]
NoEffects == [declared |-> FALSE, setState |-> "", stores |-> {}]

\* A stable sort: what stands before what, and the order of the list between equals.
StableSort(s, Before(_, _)) ==
  LET rank(i) == Cardinality({j \in DOMAIN s : Before(s[j], s[i]) \/ (~Before(s[i], s[j]) /\ j <= i)})
  IN [k \in DOMAIN s |-> s[CHOOSE i \in DOMAIN s : rank(i) = k]]

casesOf(package) ==
  UNION {Range(file.cases) : file \in {f \in Range(package.operationFiles) : f.valid}}
-----------------------------------------------------------------------------
(* scanVendorPackagePrivacy.                                               *)

\* Only files of these kinds are read; one that cannot be parsed is scanned raw.
listFiles(package) == {f \in package.texts : f.extension \in {"json", "yaml"}}

\* Private keys and the formats of live credentials, in the raw text.
scanRawContent(file) ==
  {<<"raw", file.name, t.what>> : t \in {t \in Range(file.raw) : t.what \in {"private-key", "live-credential"}}}

\* visitValue: an entry of an array is under the key of the array, a field under its own.
keyOf(path) ==
  LET names == SelectSeq(path, LAMBDA part : part.what = "key")
  IN IF names = <<>> THEN [what |-> "key", sensitive |-> FALSE] ELSE Last(names)

\* The documentation ranges and the loopback network.
isAllowedIpv4(ip) ==
  /\ \A octet \in Range(ip) : octet \in 0..255
  /\ ip[1] = 127 \/ SubSeq(ip, 1, 3) \in {<<192, 0, 2>>, <<198, 51, 100>>, <<203, 0, 113>>}

\* A suffix allows itself and what ends in it; hosts are sequences of labels.
isAllowedDomain(host) == \E suffix \in {<<"example">>, <<"test">>, <<"invalid">>} : IsSuffix(suffix, host)

\* A host behind a slash, or with the ending of a file, is taken for a file reference.
looksLikeFileReference(t) == t.slash \/ Last(t.host) \in {"json", "yaml", "js", "html", "css", "txt", "md"}

\* A value under a sensitive key is long and not visibly synthetic; every address, number and
\* host in a text is looked at, and the host of an address only as part of it.
scanString(file, leaf) ==
  LET at(what) == {t \in Range(leaf.text) : t.what = what}
      issue(code) == <<code, file.name, leaf.path>>
  IN      (IF keyOf(leaf.path).sensitive /\ leaf.long /\ ~leaf.synthetic THEN {issue("credential")} ELSE {})
     \cup (IF \E t \in at("email") : ~isAllowedDomain(t.host) THEN {issue("email")} ELSE {})
     \cup (IF \E t \in at("ip") : ~isAllowedIpv4(t.octets) THEN {issue("ip")} ELSE {})
     \cup (IF \E t \in at("host") : ~isAllowedDomain(t.host) /\ ~looksLikeFileReference(t)
           THEN {issue("domain")} ELSE {})

scanVendorPackagePrivacy(package) ==
  UNION {scanRawContent(file)
           \cup (IF file.parses THEN UNION {scanString(file, leaf) : leaf \in file.leaves} ELSE {})
         : file \in listFiles(package)}
-----------------------------------------------------------------------------
(* loadVendorPackage.                                                      *)

\* Every response that a document of the package can give.
responsesOf(package) ==
       {s.onFailure : s \in Range(package.authentication)} \cup {package.unmatchedRequest}
  \cup {package.states[s].override : s \in DOMAIN package.states}
  \cup UNION {{c.respond, c.terminalResponse} \cup {step.respond : step \in Range(c.sequence)}
              : c \in casesOf(package)}

collectAssetReferences(package) == {r.body : r \in responsesOf(package)} \ {""}

\* A reference leads out of the package, to no file, or to JSON that does not parse.
loadReferencedAssets(package) ==
  {<<"asset", r>> : r \in {r \in collectAssetReferences(package) : package.files[r] # "file"}}

\* Documents that are refused one by one.
collectDocuments(package) ==
       (IF package.vendorFile THEN {} ELSE {<<"document", "vendor">>})
  \cup (IF package.systemFile THEN {} ELSE {<<"document", "system-cases">>})
  \cup {<<"document", "operation">> : f \in {f \in Range(package.operationFiles) : ~f.valid}}

operationsOf(package) == SelectSeq(package.operationFiles, LAMBDA f : f.valid)

duplicates(s, idOf(_)) == {i \in DOMAIN s : \E j \in 1..(i - 1) : idOf(s[j]) = idOf(s[i])}

validatePackageSemantics(package) ==
  LET operations == operationsOf(package)
  IN      (IF package.initialState \in DOMAIN package.states THEN {} ELSE {<<"initial-state", "">>})
     \cup (IF \A t \in Range(package.transitions) : {t.from, t.to} \subseteq DOMAIN package.states
           THEN {} ELSE {<<"transition", "">>})
     \cup (IF duplicates(operations, LAMBDA f : f.operationId) = {} THEN {} ELSE {<<"operation-id", "">>})
     \cup (IF \A f \in Range(operations) : duplicates(f.cases, LAMBDA c : c.id) = {}
           THEN {} ELSE {<<"case-id", "">>})
     \cup (IF package.redactsAuthorization THEN {} ELSE {<<"privacy", "">>})

\* The cases of an operation in the order in which they are tried.
sortedCases(cases) == StableSort(cases, LAMBDA a, b : a.priority > b.priority)

buildExecutionModel(package) ==
  [operations |-> [k \in DOMAIN operationsOf(package) |->
     LET f == StableSort(operationsOf(package), LAMBDA a, b : a.operationId < b.operationId)[k]
     IN [id |-> f.operationId, route |-> f.route, cases |-> sortedCases(f.cases)]]]

\* The issues of a package; when it has a document of each kind and none, it is loaded.
loadVendorPackage(package) ==
  IF ~package.vendorFile \/ ~package.systemFile \/ operationsOf(package) = <<>>
  THEN collectDocuments(package) \cup (IF operationsOf(package) = <<>> THEN {<<"package", "">>} ELSE {})
  ELSE collectDocuments(package) \cup validatePackageSemantics(package) \cup loadReferencedAssets(package)
=============================================================================
