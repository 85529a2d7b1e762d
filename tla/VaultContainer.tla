--------------------------- MODULE VaultContainer ---------------------------
(***************************************************************************)
(* The wallet file format: a keyslot that wraps the data key under the     *)
(* password, a public header, a directory of sections and the encrypted    *)
(* sections, each bound to everything before it.  Files are sealed, then   *)
(* damaged (truncated, padded, parts of one file put into another), then   *)
(* opened one after another as the candidates of an unlock.                *)
(* cc-wallet-vault: vault.rs, keyslot.rs, params.rs, aead.rs;              *)
(* cc-wallet-storage: vault_store.rs (open_candidate_reusing_keyslot,      *)
(* is_container_by_header).                                                *)
(*                                                                         *)
(* External: the ciphers.  A ciphertext is a term; it opens only whole,    *)
(* under its own key and associated data.  Salts, data keys and save ids   *)
(* are fresh, so a vault is known by its number and a save by its own.     *)
(***************************************************************************)
EXTENDS Naturals, Sequences, FiniteSets, SequencesExt

CONSTANTS
    Password, Name,   \* model values
    SectionLists,     \* what callers seal: sequences of <<purpose, payload length>>
    MaxVaults, MaxSeals, MaxCounter, MaxDamage   \* bounds

VARIABLES
    vaults,   \* Vaults created, in order: password and display name
    sealed,   \* containers sealed, in order: the save id is the position
    file,     \* the candidate as it is on disk
    damage,   \* damages done
    cached,   \* keyslots opened by this unlock
    tried,    \* the password of this unlock
    opened    \* what open_container returned for the candidate

containerVars == <<vaults, sealed, file, damage, cached, tried, opened>>

BadName == "bad"
Garbage == 0           \* a keyslot prefix validate_header refuses
NoResult == [ok |-> FALSE]
NoFile == [none |-> TRUE]
NoTry == "none"
Purposes == {"wallet", "journal", "activity"}

ASSUME ContainerAssumptions ==
    /\ NoTry \notin Password /\ BadName \notin Name
    /\ MaxCounter \in Nat /\ SectionLists \subseteq Seq(Purposes \X Nat)

-----------------------------------------------------------------------------
(* Sealing                                                                 *)

\* section_frame_len: nonce and tag, one cell here, and the payload.
FrameLen(len) == len + 1

\* check_cardinality
Cardinal(ids) ==
    LET count(p) == Cardinality({i \in DOMAIN ids : ids[i] = p})
    IN  count("wallet") = 1 /\ count("journal") = 1 /\ count("activity") <= 1

\* A plausible bug: the save counter is not authenticated.
MutNoCounter(f, p) == <<f.prefix, f.wrap, f.name, f.saveId, f.manifest, p>>

\* section_aad: the keyslot, the display header, the save id, the counter, the
\* directory and the purpose.
SectionAad(f, p) == <<f.prefix, f.wrap, f.name, f.saveId, f.counter, f.manifest, p>>

\* aead::seal under stream_key: the cells of one body.  A save's payloads are
\* its own.
SealBody(dek, f, entry) ==
    [i \in 1..entry[2] |->
        [dek |-> dek, purpose |-> entry[1], aad |-> SectionAad(f, entry[1]),
         save |-> f.saveId, cell |-> i, of |-> entry[2]]]

SealedBy(k, counter, sections) ==
    LET head == [prefix |-> k, wrap |-> k, name |-> vaults[k].name,
                 saveId |-> Len(sealed) + 1, counter |-> counter,
                 manifest |-> [i \in DOMAIN sections |->
                                 <<sections[i][1], FrameLen(sections[i][2])>>],
                 body |-> <<>>]
    IN  [head EXCEPT !.body =
            FlattenSeq([i \in DOMAIN sections |-> SealBody(k, head, head.manifest[i])])]

-----------------------------------------------------------------------------
(* Parsing and opening                                                     *)

\* parse_public_header
HeaderOk(f) == f.prefix # Garbage /\ f.name # BadName

\* body_off of parse_manifest: where the n-th section ends.
Offset(manifest, n) ==
    LET end[i \in 0..Len(manifest)] == IF i = 0 THEN 0 ELSE end[i - 1] + manifest[i][2]
    IN  end[n]
Total(manifest) == Offset(manifest, Len(manifest))

\* parse_manifest: the sections fill the file, to the byte.
ExtentsOk(f) == Total(f.manifest) = Len(f.body)

SectionIds(f) == [i \in DOMAIN f.manifest |-> f.manifest[i][1]]
BodyOf(f, i) == SubSeq(f.body, Offset(f.manifest, i - 1) + 1, Offset(f.manifest, i))

\* container_declared_len, compared with the length of the file: header and
\* directory are as long as they are.
IsContainerByHeader(f) ==
    /\ HeaderOk(f) /\ Cardinal(SectionIds(f))
    /\ Total(f.manifest) = Len(f.body)

\* keyslot::open: the key encryption key is derived from the password and the
\* salt, the prefix is associated data of the wrapped key.
OpensKeyslot(f, pw) == HeaderOk(f) /\ f.wrap = f.prefix /\ vaults[f.prefix].pw = pw

\* open_body: all cells of one ciphertext, in order, under this key and data.
OpensBody(dek, f, i) ==
    LET p == SectionIds(f)[i]
        b == BodyOf(f, i)
    IN  /\ b # <<>> /\ Len(b) = b[1].of
        /\ \A j \in DOMAIN b :
             b[j] = [dek |-> dek, purpose |-> p, aad |-> SectionAad(f, p),
                     save |-> b[1].save, cell |-> j, of |-> b[1].of]

SectionAt(f, p) == CHOOSE i \in DOMAIN f.manifest : SectionIds(f)[i] = p
Has(f, p) == p \in ToSet(SectionIds(f))
Payload(f, p) == LET b == BodyOf(f, SectionAt(f, p)) IN <<b[1].save, p, Len(b)>>

\* open_container_with: what a keyslot, already opened, makes of the file.  A
\* wallet or journal that does not open is an error, an activity section that
\* does not is reported.
OpenWith(f, slot) ==
    IF ~HeaderOk(f) THEN [ok |-> FALSE, why |-> "header"]
    ELSE IF <<f.prefix, f.wrap>> # slot THEN [ok |-> FALSE, why |-> "password"]
    ELSE IF ~ExtentsOk(f) \/ ~Cardinal(SectionIds(f)) THEN [ok |-> FALSE, why |-> "manifest"]
    ELSE IF \E p \in {"wallet", "journal"} : ~OpensBody(slot[1], f, SectionAt(f, p))
      THEN [ok |-> FALSE, why |-> "corrupt"]
    ELSE [ok |-> TRUE, wallet |-> Payload(f, "wallet"), journal |-> Payload(f, "journal"),
          activity |-> IF ~Has(f, "activity") THEN "absent"
                       ELSE IF OpensBody(slot[1], f, SectionAt(f, "activity"))
                              THEN Payload(f, "activity") ELSE "corrupt",
          name |-> f.name, counter |-> f.counter]

\* open_candidate_reusing_keyslot: a slot opened before decides unless it is
\* another file's, the password is tried last.
CachedSlots(f) == {s \in cached : OpenWith(f, s) # [ok |-> FALSE, why |-> "password"]}
OpenCandidateReusing(f, pw) ==
    IF CachedSlots(f) # {}
      THEN [r |-> OpenWith(f, CHOOSE s \in CachedSlots(f) : TRUE), slots |-> cached]
    ELSE IF ~OpensKeyslot(f, pw) THEN [r |-> NoResult, slots |-> cached]
    ELSE LET r == OpenWith(f, <<f.prefix, f.wrap>>)
         IN  [r |-> r, slots |-> IF r.ok THEN cached \cup {<<f.prefix, f.wrap>>} ELSE cached]

-----------------------------------------------------------------------------
ContainerInit ==
    /\ vaults = <<>> /\ sealed = <<>> /\ file = NoFile /\ damage = 0
    /\ cached = {} /\ tried = NoTry /\ opened = NoResult

\* create_named_with: a name that is not valid creates nothing.
Create(pw, name) ==
    /\ file = NoFile /\ Len(vaults) < MaxVaults /\ name # BadName
    /\ vaults' = Append(vaults, [pw |-> pw, name |-> name])
    /\ UNCHANGED <<sealed, file, damage, cached, tried, opened>>

\* seal_container
Seal(k, counter, sections) ==
    /\ file = NoFile /\ Len(sealed) < MaxSeals
    /\ Cardinal([i \in DOMAIN sections |-> sections[i][1]])
    /\ sealed' = Append(sealed, SealedBy(k, counter, sections))
    /\ UNCHANGED <<vaults, file, damage, cached, tried, opened>>

\* The next candidate of the unlock, as it was sealed.
Candidate(s) ==
    /\ file' = sealed[s] /\ opened' = NoResult
    /\ UNCHANGED <<vaults, sealed, damage, cached, tried>>

Damaged(f) ==
    /\ file # NoFile /\ opened = NoResult /\ damage < MaxDamage
    /\ file' = f /\ f # file /\ damage' = damage + 1
    /\ UNCHANGED <<vaults, sealed, cached, tried, opened>>

\* A part of another sealed file is put in this one.
Splice(s) ==
    \E part \in {"prefix", "wrap", "name", "saveId", "counter", "manifest", "body"} :
        Damaged([file EXCEPT ![part] = sealed[s][part]])

\* One section of another sealed file replaces one of this file.
SpliceSection(s) ==
    /\ ExtentsOk(file)
    /\ \E i \in DOMAIN file.manifest, j \in DOMAIN sealed[s].manifest :
         Damaged([file EXCEPT !.body =
            FlattenSeq([n \in DOMAIN file.manifest |->
                IF n = i THEN BodyOf(sealed[s], j) ELSE BodyOf(file, n)])])

\* The end is lost, or something is appended; a header byte is not valid.
Mangle ==
    \/ \E n \in 0..Len(file.body) : Damaged([file EXCEPT !.body = SubSeq(@, 1, n)])
    \/ file.body # <<>> /\ Damaged([file EXCEPT !.body = Append(@, @[1])])
    \/ Damaged([file EXCEPT !.prefix = Garbage])
    \/ Damaged([file EXCEPT !.name = BadName])

OpenFile(pw) ==
    /\ file # NoFile /\ opened = NoResult /\ tried \in {NoTry, pw}
    /\ opened' = OpenCandidateReusing(file, pw).r
    /\ cached' = OpenCandidateReusing(file, pw).slots
    /\ tried' = pw
    /\ UNCHANGED <<vaults, sealed, file, damage>>

ContainerNext ==
    \/ \E pw \in Password, name \in Name \cup {BadName} : Create(pw, name)
    \/ \E k \in DOMAIN vaults, c \in 1..MaxCounter, l \in SectionLists : Seal(k, c, l)
    \/ \E s \in DOMAIN sealed : Candidate(s)
    \/ file # NoFile /\ \E s \in DOMAIN sealed : Splice(s) \/ SpliceSection(s)
    \/ file # NoFile /\ Mangle
    \/ \E pw \in Password : OpenFile(pw)

ContainerSpec == ContainerInit /\ [][ContainerNext]_containerVars

-----------------------------------------------------------------------------
\* What opens was sealed: wallet, journal, name and counter are those of one
\* save under the password given, and its activity is returned, reported
\* corrupt, or absent because that save had none; and the listing, which reads
\* the header only, counts the file as a wallet (open_container_with,
\* is_container_by_header).
OpensWhatWasSealed ==
    opened.ok => IsContainerByHeader(file) /\ \E s \in DOMAIN sealed :
        LET c == sealed[s]
        IN  /\ vaults[c.prefix].pw = tried
            /\ opened.wallet = Payload(c, "wallet") /\ opened.journal = Payload(c, "journal")
            /\ opened.name = c.name /\ opened.counter = c.counter
            /\ opened.activity \in IF Has(c, "activity")
                                     THEN {Payload(c, "activity"), "corrupt"} ELSE {"absent"}
=============================================================================
