---------------------------- MODULE ServerConfig ----------------------------
(***************************************************************************)
(* ServerConfig::parse, ServerApp::serialize and what run() makes of the   *)
(* configuration before it listens, with the two dialogs that edit it: a   *)
(* file is written by hand, loaded, edited in the dialogs, saved by them   *)
(* and loaded again.                                                       *)
(*                                                                         *)
(* A text is a sequence of lines and a line a sequence of atoms: the       *)
(* characters parse() looks for ("=", ".", "#", blanks, separators) and    *)
(* the words between them.                                                 *)
(***************************************************************************)
EXTENDS SubnetFilter, SequencesExt

CONSTANTS
    Atoms,          \* what a text is made of
    Cidr,           \* what each word that stands for a range is the text of
    Rights,         \* kRights: the names of the rights, in the table's order
    Ports, Ints,    \* how many values a port and an unsigned int have: 2^16, 2^32
    Numerals,       \* the word each number is written as
    Default,        \* of a ServerConfig{}
    FirstRange,     \* the range onOptions proposes when there is no file
    Lines,          \* lines an administrator writes by hand
    Typed,          \* what is typed into the edit controls, by setting
    TypedNames, TypedHashes, \* what the Add User dialog makes
    TypedRanges,    \* what is typed into the filter page
    NoFile,
    MaxLines, MaxEdits, MaxSaves \* bounds: lines by hand, edits in dialogs, dialogs left with OK

Text == Seq(Atoms)
IntMax == Ints \div 2 - 1

\* The settings, and those the Options dialog has an edit control for.
Settings == <<"bind", "port", "monitor", "allow_subnets", "tls_cert", "tls_key", "client_ca",
              "audit_csv", "file_root", "max_sessions">>
Controls == ToSet(Settings) \ {"allow_subnets", "client_ca"}

ASSUME ConfigAssumption ==
    /\ Ports \in Nat \ {0} /\ Ints \in Nat /\ Ints >= 2 /\ Ports <= Ints
    /\ MaxLines \in Nat /\ MaxEdits \in Nat /\ MaxSaves \in Nat

ASSUME NumeralsAssumption ==
    /\ Numerals \in [-IntMax - 1 .. Ints - 1 -> Atoms]
    /\ \A m, n \in -IntMax - 1 .. Ints - 1 : Numerals[m] = Numerals[n] => m = n

ASSUME TextAssumption ==
    /\ {"=", ".", "|", ",", "user", "hash", "rights", "None"} \subseteq Atoms
    /\ \A word \in DOMAIN Cidr : Cidr[word] \in FilterEntries
    /\ Rights \in Text /\ FirstRange \in Text
    /\ Lines \subseteq Text
    /\ DOMAIN Typed \subseteq Controls
    /\ \A k \in DOMAIN Typed : Typed[k] \subseteq Text
    /\ TypedNames \subseteq Text /\ TypedHashes \subseteq Text /\ TypedRanges \subseteq Text

VARIABLES
    text,   \* the file, as the program decrypts it
    cfg,    \* cfg_
    up,     \* the program runs
    dialog,   \* the dialog that is open: "none", "options" or "users"
    controls, \* the text in each edit control of the Options dialog
    ranges,   \* the list box of its filter page
    working,  \* the working copy of the users in the Users dialog
    touched,  \* history: the names, settings and ranges edited since the dialog opened
    edits,  \* edits made
    saves   \* dialogs left with OK

dialogVars == <<dialog, controls, ranges, working, touched>>
configVars == <<text, cfg, up, dialog, controls, ranges, working, touched, edits, saves>>

-----------------------------------------------------------------------------
(* Text                                                                     *)

Trim(s) ==
    LET solid == {i \in DOMAIN s : s[i] # " "}
    IN  IF solid = {} THEN <<>> ELSE SubSeq(s, Min(solid), Max(solid))

\* splitAny: the non-empty pieces between separators; addList and the filter
\* page cut their lists the same way.
Split(s, seps) ==
    LET Flush(cut) == IF cut.token = <<>> THEN cut.pieces ELSE Append(cut.pieces, cut.token)
        cuts[n \in 0 .. Len(s)] ==
            IF n = 0 THEN [pieces |-> <<>>, token |-> <<>>]
            ELSE IF s[n] \in seps THEN [pieces |-> Flush(cuts[n - 1]), token |-> <<>>]
            ELSE [cuts[n - 1] EXCEPT !.token = Append(@, s[n])]
    IN  Flush(cuts[Len(s)])

\* A list written out, and one more piece of it.
Joined(s, sep, piece) == IF s = <<>> THEN piece ELSE s \o <<sep>> \o piece

\* A mutant of Join: no separator.
JoinTight(pieces, sep) == FlattenSeq(pieces)

Join(pieces, sep) ==
    LET out[n \in 0 .. Len(pieces)] ==
            IF n = 0 THEN <<>> ELSE Joined(out[n - 1], sep, pieces[n])
    IN  out[Len(pieces)]

\* std::atoi, which stops at the first thing that is no digit and stays within
\* an int, and the cast to the field's unsigned type.
Atoi(s) ==
    LET fits == {n \in DOMAIN Numerals : s # <<>> /\ Numerals[n] = s[1]}
    IN  IF fits = {} THEN 0 ELSE Min(fits \cup {IntMax})

Numbers == {"port", "monitor", "max_sessions"}
Width(k) == IF k = "port" THEN Ports ELSE Ints

\* What the fields of a ServerConfig hold, but for its users.
SettingValues(k) == IF k \in Numbers THEN 0 .. Width(k) - 1 ELSE Text

ASSUME SettingsAssumption ==
    /\ ToSet(Settings) \subseteq Atoms
    /\ Default = [k \in ToSet(Settings) |-> Default[k]]
    /\ \A k \in ToSet(Settings) : Default[k] \in SettingValues(k)

\* A setting from its text, and its text again.
Value(k, s) == IF k \in Numbers THEN Atoi(s) % Width(k) ELSE s
Written(k, v) == IF k \in Numbers THEN <<Numerals[v]>> ELSE v

\* rightsFromStrings and rightsToString; a set of rights is the mask of its bits.
RightsFrom(pieces) == {r \in ToSet(Rights) : <<r>> \in ToSet(pieces)}
RightsText(rights) ==
    LET names[n \in 0 .. Len(Rights)] ==
            IF n = 0 THEN <<>>
            ELSE IF Rights[n] \notin rights THEN names[n - 1]
            ELSE Joined(names[n - 1], "|", <<Rights[n]>>)
    IN  IF names[Len(Rights)] = <<>> THEN <<"None">> ELSE names[Len(Rights)]

-----------------------------------------------------------------------------
(* ServerConfig::parse                                                      *)

\* users[name], made if there is none, with one field set.
WithField(users, name, field, val) ==
    LET u == IF name \in DOMAIN users THEN users[name]
             ELSE [username |-> name, argon2Hash |-> <<>>, rights |-> {}]
        set == CASE field = <<"hash">> -> [u EXCEPT !.argon2Hash = val]
                 [] field = <<"rights">> -> [u EXCEPT !.rights = RightsFrom(Split(val, {"|", ","}))]
                 [] OTHER -> u
    IN  [n \in {name} \cup DOMAIN users |-> IF n = name THEN set ELSE users[n]]

\* The dot before the field.  A mutant: the name of an account ends at its first.
FirstDot(s) == SelectInSeq(s, LAMBDA a : a = ".")
LastDot(s) == SelectLastInSeq(s, LAMBDA a : a = ".")

\* One line of the file.
ParseLine(c, raw) ==
    LET line == Trim(raw)
        eq == SelectInSeq(line, LAMBDA a : a = "=")
        key == Trim(SubSeq(line, 1, eq - 1))
        val == Trim(SubSeq(line, eq + 1, Len(line)))
        rest == SubSeq(key, 3, Len(key))
        dot == LastDot(rest)
    IN  IF line = <<>> \/ eq = 0 \/ Head(line) \in {"#", ";"} THEN c
        ELSE IF Len(key) = 1 /\ key[1] \in ToSet(Settings)
        THEN [c EXCEPT !.settings[key[1]] = Value(key[1], val)]
        ELSE IF IsPrefix(<<"user", ".">>, key) /\ dot # 0
        THEN [c EXCEPT !.users = WithField(@, SubSeq(rest, 1, dot - 1),
                                           SubSeq(rest, dot + 1, Len(rest)), val)]
        ELSE c

\* The users come out in the order of the map.
Parse(lines) ==
    LET read[n \in 0 .. Len(lines)] ==
            IF n = 0 THEN [settings |-> Default, users |-> <<>>]
            ELSE ParseLine(read[n - 1], lines[n])
        c == read[Len(lines)]
    IN  [c EXCEPT !.users = SetToSeq({c.users[name] : name \in DOMAIN c.users})]

-----------------------------------------------------------------------------
(* ServerApp::serialize                                                     *)

SettingLines(c) ==
    LET lines[n \in 0 .. Len(Settings)] ==
            IF n = 0 THEN <<>>
            ELSE IF Settings[n] = "client_ca" /\ c.settings["client_ca"] = <<>> THEN lines[n - 1]
            ELSE Append(lines[n - 1],
                        <<Settings[n], "=">> \o Written(Settings[n], c.settings[Settings[n]]))
    IN  lines[Len(Settings)]

UserLines(u) ==
    LET Field(f, v) == <<"user", ".">> \o u.username \o <<".", f, "=">> \o v
    IN  <<Field("hash", u.argon2Hash), Field("rights", RightsText(u.rights))>>

Serialize(c) ==
    LET lines[n \in 0 .. Len(c.users)] ==
            IF n = 0 THEN SettingLines(c)
            ELSE IF c.users[n].username = <<>> \/ c.users[n].argon2Hash = <<>> THEN lines[n - 1]
            ELSE lines[n - 1] \o UserLines(c.users[n])
    IN  lines[Len(c.users)]

-----------------------------------------------------------------------------
(* What run() makes of a configuration                                      *)

Entry(piece) ==
    IF Len(piece) = 1 /\ piece[1] \in DOMAIN Cidr THEN Cidr[piece[1]]
    ELSE [addr |-> Unreadable, bits |-> NoSlash]
Pieces(list) == Split(list, {",", " "})
Entries(c) == LET pieces == Pieces(c.settings["allow_subnets"])
              IN  [i \in DOMAIN pieces |-> Entry(pieces[i])]
Rules(c) == AddList(Entries(c))

\* SecurityManager::addUser, for every user with a hash.
WithAccount(accounts, u) ==
    [name \in {u.username} \cup DOMAIN accounts |->
        IF name = u.username THEN [hash |-> u.argon2Hash, rights |-> u.rights] ELSE accounts[name]]
Accounts(c) ==
    LET made[n \in 0 .. Len(c.users)] ==
            IF n = 0 THEN <<>>
            ELSE IF c.users[n].argon2Hash = <<>> THEN made[n - 1]
            ELSE WithAccount(made[n - 1], c.users[n])
    IN  made[Len(c.users)]

\* The exit codes that depend on the configuration alone.
Refusal(c) == IF Rules(c) = <<>> THEN 3 ELSE IF DOMAIN Accounts(c) = {} THEN 4 ELSE 0

-----------------------------------------------------------------------------
Untouched == [names |-> {}, keys |-> {}, ranges |-> {}]

ConfigInit ==
    /\ text \in {NoFile, <<>>}
    /\ cfg = [settings |-> Default, users |-> <<>>]
    /\ up = FALSE
    /\ dialog = "none" /\ controls = <<>> /\ ranges = <<>> /\ working = <<>> /\ touched = Untouched
    /\ edits = 0 /\ saves = 0

\* A line written by hand into the file that is sealed next.
WriteLine ==
    /\ ~up /\ text # NoFile
    /\ Len(text) < MaxLines
    /\ \E line \in Lines : text' = Append(text, line)
    /\ UNCHANGED <<cfg, up, dialogVars, edits, saves>>

\* loadConfig
Load ==
    /\ ~up /\ text # NoFile
    /\ cfg' = Parse(text)
    /\ up' = TRUE
    /\ UNCHANGED <<text, dialogVars, edits, saves>>

\* onOptions before there is a configuration.
Propose ==
    /\ ~up /\ text = NoFile
    /\ cfg' = [settings |-> [Default EXCEPT !["allow_subnets"] = FirstRange], users |-> <<>>]
    /\ up' = TRUE
    /\ UNCHANGED <<text, dialogVars, edits, saves>>

\* Both dialogs work on copies, which go when they are left.
Close ==
    /\ dialog' = "none" /\ controls' = <<>> /\ ranges' = <<>> /\ working' = <<>>
    /\ touched' = Untouched

\* saveConfig, after a dialog was left with OK.
Save(c) ==
    /\ saves < MaxSaves /\ saves' = saves + 1
    /\ cfg' = c
    /\ text' = Serialize(c)
    /\ Close
    /\ UNCHANGED <<up, edits>>

Cancel ==
    /\ dialog # "none"
    /\ Close
    /\ UNCHANGED <<text, cfg, up, edits, saves>>

Edit(d) == dialog = d /\ edits < MaxEdits /\ edits' = edits + 1

-----------------------------------------------------------------------------
(* The Options dialog                                                       *)

OpenOptions ==
    /\ up /\ dialog = "none"
    /\ dialog' = "options"
    /\ controls' = [k \in Controls |-> Written(k, cfg.settings[k])]
    /\ ranges' = Pieces(cfg.settings["allow_subnets"])
    /\ UNCHANGED <<text, cfg, up, working, touched, edits, saves>>

\* Typed, or put there by a browse button or the default-port box.
Type ==
    /\ Edit("options")
    /\ \E k \in DOMAIN Typed : \E s \in Typed[k] :
          /\ controls' = [controls EXCEPT ![k] = s]
          /\ touched' = [touched EXCEPT !.keys = @ \cup {k}]
    /\ UNCHANGED <<text, cfg, up, dialog, ranges, working, saves>>

AddRange ==
    /\ Edit("options")
    /\ \E r \in TypedRanges \ {<<>>} : ranges' = Append(ranges, r)
    /\ UNCHANGED <<text, cfg, up, dialog, controls, working, touched, saves>>

RemoveRange ==
    /\ Edit("options")
    /\ \E i \in DOMAIN ranges :
          /\ ranges' = RemoveAt(ranges, i)
          /\ touched' = [touched EXCEPT !.ranges = @ \cup {ranges[i]}]
    /\ UNCHANGED <<text, cfg, up, dialog, controls, working, saves>>

\* OK: every field is read back from its control; the client CA has none.
OptionsOk ==
    /\ dialog = "options"
    /\ Save([cfg EXCEPT !.settings = [k \in DOMAIN @ |->
               CASE k = "allow_subnets" -> Join(ranges, ",")
                 [] k = "client_ca" -> @[k]
                 [] OTHER -> Value(k, controls[k])]])

-----------------------------------------------------------------------------
(* The Users dialog                                                         *)

OpenUsers ==
    /\ up /\ text # NoFile /\ dialog = "none"
    /\ dialog' = "users"
    /\ working' = cfg.users
    /\ UNCHANGED <<text, cfg, up, controls, ranges, touched, edits, saves>>

\* An edit of one account of the working copy.
EditUser(users, name) ==
    /\ Edit("users")
    /\ working' = users
    /\ touched' = [touched EXCEPT !.names = @ \cup {name}]
    /\ UNCHANGED <<text, cfg, up, dialog, controls, ranges, saves>>

ClickAdd ==
    \E name \in TypedNames \ {<<>>}, hash \in TypedHashes :
        EditUser(Append(working, [username |-> name, argon2Hash |-> hash, rights |-> {}]), name)

ClickRemove ==
    \E i \in DOMAIN working : EditUser(RemoveAt(working, i), working[i].username)

\* A rights box clicked while a user is selected.
ClickRight ==
    \E i \in DOMAIN working, r \in ToSet(Rights) :
        EditUser([working EXCEPT ![i].rights = (@ \ {r}) \cup ({r} \ @)], working[i].username)

UsersOk ==
    /\ dialog = "users"
    /\ Save([cfg EXCEPT !.users = working])

-----------------------------------------------------------------------------
\* The program ends; what is in memory is gone.
Exit ==
    /\ up
    /\ up' = FALSE
    /\ cfg' = [settings |-> Default, users |-> <<>>]
    /\ Close
    /\ UNCHANGED <<text, edits, saves>>

ConfigNext ==
    \/ WriteLine \/ Load \/ Propose \/ Exit
    \/ OpenOptions \/ Type \/ AddRange \/ RemoveRange \/ OptionsOk
    \/ OpenUsers \/ ClickAdd \/ ClickRemove \/ ClickRight \/ UsersOk
    \/ Cancel

ConfigSpec == ConfigInit /\ [][ConfigNext]_configVars

-----------------------------------------------------------------------------
(* What must hold                                                           *)

\* A peer gets past the filter run() builds if and only if one entry of the
\* configured list is well formed and the peer has its leading bits; without
\* such an entry the server does not start and nobody is let in.
FilterExact ==
    LET entries == Entries(cfg)
        rules == Rules(cfg)
    IN  \A f \in Families : \A bytes \in Address(f) :
            LET ip == [family |-> f, bytes |-> bytes]
            IN  IsAllowed(rules, ip) <=>
                    \E n \in DOMAIN entries : WellFormed(entries[n]) /\ Covers(entries[n], ip)

\* Everything a server takes from its configuration, but for blanks around a
\* value and for numbers no int can hold, which come back as the largest int.
Served(c) ==
    [refusal |-> Refusal(c), rules |-> Rules(c), accounts |-> Accounts(c),
     settings |-> [k \in DOMAIN c.settings |->
        IF k \in Numbers THEN Min({c.settings[k], IntMax})
        ELSE IF k = "allow_subnets" THEN <<>> ELSE Trim(c.settings[k])]]

\* Accounts whose name a line of the file can carry.
NamesFit(c) == \A i \in DOMAIN c.users : c.users[i].username # <<>> /\ "=" \notin ToSet(c.users[i].username)

\* While the program runs, the file holds what the running server has: started
\* again from it, a server lets in the same peers and the same accounts with
\* the same passwords and rights, and refuses to start in the same cases.
RestartServesTheSame ==
    up /\ text # NoFile /\ NamesFit(cfg) => Served(Parse(text)) = Served(cfg)

\* One OK commits whatever was edited since the dialog opened, and nothing else:
\* a name nobody touched has the account it had or none as before, a setting
\* nobody typed over is served as it was, the Users dialog leaves the filter
\* alone, and after the Options dialog those are let in whom the ranges on its
\* list cover - among them all whom a range covers that nobody took off.
Covered(texts, ip) == \E r \in texts : WellFormed(Entry(r)) /\ Covers(Entry(r), ip)
SameAccount(old, new, name) ==
    /\ name \in DOMAIN old <=> name \in DOMAIN new
    /\ name \in DOMAIN old => old[name] = new[name]
FilterAsEdited(rules) ==
    \A f \in Families : \A bytes \in Address(f) :
        LET ip == [family |-> f, bytes |-> bytes]
        IN  /\ Covered(ToSet(Pieces(cfg.settings["allow_subnets"])) \ touched.ranges, ip)
                  => IsAllowed(rules, ip)
            /\ IsAllowed(rules, ip)
                  => Covered(UNION {ToSet(Pieces(ranges[i])) : i \in DOMAIN ranges}, ip)
OkChangesWhatWasEdited ==
    [][saves' # saves =>
        \E old \in {Served(cfg)}, new \in {Served(cfg')} :
            /\ \A name \in (DOMAIN old.accounts \cup DOMAIN new.accounts) \ touched.names :
                  SameAccount(old.accounts, new.accounts, name)
            /\ \A k \in ToSet(Settings) \ touched.keys : new.settings[k] = old.settings[k]
            /\ IF dialog = "users" THEN new.rules = old.rules ELSE FilterAsEdited(new.rules)]_configVars
=============================================================================
