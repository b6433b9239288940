----------------------------- MODULE MainProofs -----------------------------
(* Proofs about the two parts of main.cpp that stand outside the work on a    *)
(* resume, the settings at its start and the unwrapping of a review; then,    *)
(* that the parts MCParts runs side by side behave as each does alone.       *)
EXTENDS MCParts, ScoringProofs, FileManagerProofs, SequenceTheorems

----------------------------------------------------------------------------
(* The start of the server.                                                  *)

\* The lines of the second file follow those of the first, and the server
\* starts when both have been read.
ReadInOrder ==
    /\ at = 1 => files[2] = <<>>
    /\ serving # "loading" => at = 3

ConfigInv ==
    /\ ConfigTypeOK /\ DOMAIN given \subseteq Keys
    /\ ReadInOrder /\ FirstSettingWins /\ ListensWherePortSays

\* The lines of a variable, with one more line at the end.
LEMMA OneSettingMore ==
    ASSUME ConfigTypeOK, ReadInOrder, NEW l \in Pairs, ReadLine(l)
    PROVE  \E N \in Nat :
              /\ files' \in [1..2 -> Seq(Pairs)]
              /\ (at = 1 => files'[2] = <<>>)
              /\ \A i \in DOMAIN SettingLines : i < N /\ i \in Nat
              /\ DOMAIN SettingLines' = DOMAIN SettingLines \cup {N}
              /\ SettingLines'[N] = l
              /\ \A i \in DOMAIN SettingLines : SettingLines'[i] = SettingLines[i]
<1>1. PICK f, g : f = files[1] /\ g = files[2]
  OBVIOUS
<1>2. PICK p, q : p = files'[1] /\ q = files'[2]
  OBVIOUS
<1>3. /\ f \in Seq(Pairs) /\ g \in Seq(Pairs) /\ DOMAIN files = 1..2
      /\ at \in 1..2
  <2>1. files \in [1..2 -> Seq(Pairs)] /\ at \in 1..3
    BY DEF ConfigTypeOK
  <2>2. at <= 2
    BY DEF ReadLine
  <2>3. at \in 1..2
    BY <2>1, <2>2
  <2>4. DOMAIN files = 1..2 /\ files[1] \in Seq(Pairs) /\ files[2] \in Seq(Pairs)
    BY <2>1
  <2> QED BY <1>1, <2>3, <2>4
<1>4. /\ files' \in [1..2 -> Seq(Pairs)]
      /\ \/ at = 1 /\ g = <<>> /\ p = Append(f, l) /\ q = g
         \/ at = 2 /\ p = f /\ q = Append(g, l)
  <2>1. files \in [1..2 -> Seq(Pairs)] /\ (at = 1 => g = <<>>)
    BY <1>1 DEF ConfigTypeOK, ReadInOrder
  <2>2. files' = [files EXCEPT ![at] = Append(files[at], l)]
    BY DEF ReadLine
  <2>3. Append(files[at], l) \in Seq(Pairs)
    BY <1>3, <2>1
  <2>4. files' \in [1..2 -> Seq(Pairs)]
    BY <2>1, <2>2, <2>3
  <2>6. \A i \in 1..2 : files'[i] = IF i = at THEN Append(files[at], l) ELSE files[i]
    BY <2>1, <2>2
  <2> QED BY <1>1, <1>2, <1>3, <2>1, <2>4, <2>6
<1>5. PICK s, t : s = f \o g /\ t = p \o q
  OBVIOUS
<1>6. s = SettingLines /\ t = SettingLines'
  BY <1>1, <1>2, <1>5 DEF SettingLines
<1>7. s \in Seq(Pairs) /\ t = Append(s, l)
  <2>1. CASE at = 1 /\ g = <<>> /\ p = Append(f, l) /\ q = g
    BY <1>3, <1>4, <1>5, <2>1, ConcatEmptySeq
  <2>2. CASE at = 2 /\ p = f /\ q = Append(g, l)
    <3>1. Append(g, l) = g \o <<l>> /\ <<l>> \in Seq(Pairs)
      BY <1>3
    <3>2. f \o (g \o <<l>>) = (f \o g) \o <<l>>
      BY <1>3, <3>1, ConcatAssociative
    <3>3. s \in Seq(Pairs) /\ Append(s, l) = s \o <<l>>
      BY <1>3, <1>5
    <3> QED BY <1>5, <2>2, <3>1, <3>2, <3>3
  <2> QED BY <1>4, <2>1, <2>2
<1>8. /\ Len(s) + 1 \in Nat
      /\ \A i \in DOMAIN s : i < Len(s) + 1 /\ i \in Nat
      /\ DOMAIN t = DOMAIN s \cup {Len(s) + 1}
      /\ t[Len(s) + 1] = l
      /\ \A i \in DOMAIN s : t[i] = s[i]
  BY <1>7
<1>9. at = 1 => files'[2] = <<>>
  BY <1>2, <1>4
<1> QED BY <1>4, <1>6, <1>8, <1>9

\* The numbers of 16 bits.
LEMMA PortsAre == \A p : p \in Ports <=> p \in Int /\ 0 <= p /\ p <= 65535
<1>1. \A w \in Int : \A p : p \in 0..w <=> p \in Int /\ 0 <= p /\ p <= w
  OBVIOUS
<1>2. PICK w \in Int : w = 65535
  OBVIOUS
<1>3. Ports = 0..w
  BY <1>2 DEF Ports
<1>4. \A p : p \in Ports <=> p \in Int /\ 0 <= p /\ p <= w
  BY <1>1, <1>3
<1> QED BY <1>2, <1>4

\* port() takes 16 bits of any number, and all of a port.
LEMMA Port16 ==
    ASSUME NEW n \in Int
    PROVE  /\ Narrowed(n) \in Ports
           /\ (n - Narrowed(n)) % 65536 = 0
           /\ n \in Ports => Narrowed(n) = n
<1>1. n % 65536 \in Int /\ 0 <= n % 65536 /\ n % 65536 <= 65535
  OBVIOUS
<1>2. (n - (n % 65536)) % 65536 = 0
  OBVIOUS
<1>3. 0 <= n /\ n <= 65535 => n % 65536 = n
  OBVIOUS
<1>4. Narrowed(n) \in Ports
  BY <1>1, PortsAre DEF Narrowed
<1>5. (n - Narrowed(n)) % 65536 = 0
  BY <1>2 DEF Narrowed
<1>6. n \in Ports => Narrowed(n) = n
  BY <1>3, PortsAre DEF Narrowed
<1> QED BY <1>4, <1>5, <1>6

\* Before a line is read the environment is that of the process.
LEMMA InitConfig == ConfigInit => ConfigInv
<1> SUFFICES ASSUME ConfigInit PROVE ConfigInv
  OBVIOUS
<1>1. PICK ks \in SUBSET Keys : given \in [ks -> {Plain(t) : t \in ValueTexts}]
  BY DEF ConfigInit
<1>2. \A k \in DOMAIN given : k \in Keys /\ given[k] \in Values
  <2> SUFFICES ASSUME NEW k \in DOMAIN given
               PROVE  k \in Keys /\ given[k] \in Values
    OBVIOUS
  <2>1. DOMAIN given = ks /\ given[k] \in {Plain(t) : t \in ValueTexts}
    BY <1>1
  <2>2. PICK t \in ValueTexts : given[k] = Plain(t)
    BY <2>1
  <2>3. Plain(t) \in Values
    BY DEF Plain, Values, Quotes
  <2> QED BY <2>1, <2>2, <2>3
<1>3. env = given /\ at = 1 /\ serving = "loading" /\ port = 0
  BY DEF ConfigInit
<1>4. files \in [1..2 -> Seq(Pairs)] /\ files[1] = <<>> /\ files[2] = <<>>
  <2>1. files = <<<<>>, <<>>>>
    BY DEF ConfigInit
  <2>2. DOMAIN files = 1..2 /\ files[1] = <<>> /\ files[2] = <<>>
    BY <2>1
  <2>3. files = [i \in 1..2 |-> <<>>]
    BY <2>1
  <2>4. <<>> \in Seq(Pairs)
    OBVIOUS
  <2> QED BY <2>2, <2>3, <2>4
<1>5. \A k : Settings(k) = {}
  <2>1. SettingLines = <<>>
    BY <1>4 DEF SettingLines
  <2>2. DOMAIN SettingLines = {}
    BY <2>1
  <2> QED BY <2>2 DEF Settings
<1>6. ConfigTypeOK /\ DOMAIN given \subseteq Keys /\ ReadInOrder
  <2>1. 0 \in Ports
    BY PortsAre
  <2> QED BY <1>2, <1>3, <1>4, <2>1 DEF ConfigTypeOK, ReadInOrder
<1>7. FirstSettingWins
  BY <1>3, <1>5 DEF FirstSettingWins
<1>8. ListensWherePortSays
  BY <1>3 DEF ListensWherePortSays
<1> QED BY <1>6, <1>7, <1>8 DEF ConfigInv

\* A line that gives k a value, or none, one more behind the lines there were.
LEMMA SettingsAfter ==
    ASSUME ConfigTypeOK, ReadInOrder, NEW l \in Pairs, ReadLine(l)
    PROVE  \E N \in Nat :
              /\ SettingLines'[N] = l
              /\ \A k : /\ Settings(k)' = Settings(k) \cup (IF l.key = k THEN {N} ELSE {})
                       /\ \A i \in Settings(k) : /\ i < N /\ i \in Nat
                                                 /\ SettingLines'[i] = SettingLines[i]
<1>1. PICK N \in Nat :
         /\ \A i \in DOMAIN SettingLines : i < N /\ i \in Nat
         /\ DOMAIN SettingLines' = DOMAIN SettingLines \cup {N}
         /\ SettingLines'[N] = l
         /\ \A i \in DOMAIN SettingLines : SettingLines'[i] = SettingLines[i]
  BY OneSettingMore
<1>2. PICK s, t : s = SettingLines /\ t = SettingLines'
  OBVIOUS
<1>3. \A k : Settings(k) = {i \in DOMAIN s : s[i].key = k}
  BY <1>2 DEF Settings
<1>4. \A k : Settings(k)' = {i \in DOMAIN t : t[i].key = k}
  BY <1>2 DEF Settings
<1>5. /\ \A i \in DOMAIN s : i < N /\ i \in Nat /\ t[i] = s[i]
      /\ DOMAIN t = DOMAIN s \cup {N} /\ t[N] = l
  BY <1>1, <1>2
<1>6. ASSUME NEW k
      PROVE  /\ Settings(k)' = Settings(k) \cup (IF l.key = k THEN {N} ELSE {})
             /\ \A i \in Settings(k) : /\ i < N /\ i \in Nat
                                       /\ SettingLines'[i] = SettingLines[i]
  <2>1. \A i \in Settings(k) : i < N /\ i \in Nat /\ t[i] = s[i]
    BY <1>3, <1>5
  <2>2. {i \in DOMAIN t : t[i].key = k}
          = {i \in DOMAIN s : s[i].key = k} \cup (IF l.key = k THEN {N} ELSE {})
    BY <1>5
  <2> QED BY <1>2, <1>3, <1>4, <2>1, <2>2
<1> QED BY <1>1, <1>6

\* Reading a line keeps the first setting of every variable.
LEMMA ReadKeepsFirst ==
    ASSUME ConfigInv, NEW l \in Pairs, ReadLine(l)
    PROVE  FirstSettingWins'
<1> USE DEF ConfigInv
<1>1. PICK N \in Nat :
         /\ SettingLines'[N] = l
         /\ \A k : /\ Settings(k)' = Settings(k) \cup (IF l.key = k THEN {N} ELSE {})
                  /\ \A i \in Settings(k) : /\ i < N /\ i \in Nat
                                            /\ SettingLines'[i] = SettingLines[i]
  BY SettingsAfter
<1>2. given' = given /\ l.key \in Keys \cup {""} /\ l.value \in Values
  BY DEF ReadLine, Pairs
<1>3. SUFFICES ASSUME NEW k \in Keys
               PROVE  /\ k \in DOMAIN env' <=> k \in DOMAIN given \/ Settings(k)' # {}
                      /\ k \in DOMAIN given => env'[k] = given[k]
                      /\ k \in DOMAIN env' \ DOMAIN given => \E i \in Settings(k)' :
                           LET v == SettingLines'[i].value
                           IN  /\ \A j \in Settings(k)' : i <= j
                               /\ env'[k].text = v.text
                               /\ env'[k] = v \/ v.left = v.right
                               /\ env'[k].left # "" => env'[k].left # env'[k].right
  BY <1>2 DEF FirstSettingWins
<1>4. /\ k \in DOMAIN env <=> k \in DOMAIN given \/ Settings(k) # {}
      /\ k \in DOMAIN given => env[k] = given[k]
      /\ k \in DOMAIN env \ DOMAIN given => \E i \in Settings(k) :
           /\ \A j \in Settings(k) : i <= j
           /\ env[k].text = SettingLines[i].value.text
           /\ env[k] = SettingLines[i].value
                 \/ SettingLines[i].value.left = SettingLines[i].value.right
           /\ env[k].left # "" => env[k].left # env[k].right
  BY DEF FirstSettingWins
<1>5. CASE l.key = k /\ k \notin DOMAIN env
  <2>1. Settings(k) = {} /\ Settings(k)' = {N} /\ k \notin DOMAIN given
    BY <1>1, <1>4, <1>5
  <2>2. k # "" /\ ~IsSet(l.key)
    BY <1>5, ConfigAssumption DEF IsSet
  <2>3. k \in DOMAIN env' /\ env'[k] = Unquoted(l.value)
    BY <1>5, <2>2 DEF ReadLine
  <2>4. /\ Unquoted(l.value).text = l.value.text
        /\ Unquoted(l.value) = l.value \/ l.value.left = l.value.right
        /\ Unquoted(l.value).left # "" => Unquoted(l.value).left # Unquoted(l.value).right
    BY <1>2 DEF Unquoted, Plain, Values, Quotes
  <2>5. SettingLines'[N] = l /\ \A j \in Settings(k)' : N <= j
    BY <1>1, <2>1
  <2>6. /\ env'[k].text = SettingLines'[N].value.text
        /\ \/ env'[k] = SettingLines'[N].value
           \/ SettingLines'[N].value.left = SettingLines'[N].value.right
        /\ env'[k].left # "" => env'[k].left # env'[k].right
    BY <2>3, <2>4, <2>5
  <2> QED BY <2>1, <2>3, <2>5, <2>6
<1>6. CASE ~(l.key = k /\ k \notin DOMAIN env)
  <2>1. (k \in DOMAIN env' <=> k \in DOMAIN env) /\ (k \in DOMAIN env => env'[k] = env[k])
    BY <1>6 DEF ReadLine, IsSet
  <2>2. k \in DOMAIN env \/ Settings(k)' = Settings(k)
    BY <1>1, <1>6
  <2>3. \A j \in Settings(k)' : j \in Settings(k) \/ j = N
    BY <1>1
  <2>4. ASSUME k \in DOMAIN env \ DOMAIN given
        PROVE  \E i \in Settings(k)' :
                 /\ \A j \in Settings(k)' : i <= j
                 /\ env'[k].text = SettingLines'[i].value.text
                 /\ env'[k] = SettingLines'[i].value
                       \/ SettingLines'[i].value.left = SettingLines'[i].value.right
                 /\ env'[k].left # "" => env'[k].left # env'[k].right
    <3>1. PICK i \in Settings(k) :
             /\ \A j \in Settings(k) : i <= j
             /\ env[k].text = SettingLines[i].value.text
             /\ env[k] = SettingLines[i].value
                   \/ SettingLines[i].value.left = SettingLines[i].value.right
             /\ env[k].left # "" => env[k].left # env[k].right
      BY <1>4, <2>4
    <3>2. i < N /\ i \in Nat /\ SettingLines'[i] = SettingLines[i] /\ i \in Settings(k)'
      BY <1>1
    <3>3. \A j : j \in Settings(k)' => i <= j
      <4> SUFFICES ASSUME NEW j, j \in Settings(k)' PROVE i <= j
        OBVIOUS
      <4>1. CASE j \in Settings(k)
        BY <3>1, <4>1
      <4>2. CASE j = N
        BY <3>2, <4>2
      <4> QED BY <2>3, <4>1, <4>2
    <3> QED BY <2>1, <2>4, <3>1, <3>2, <3>3
  <2> QED BY <1>1, <1>4, <2>1, <2>2, <2>4
<1> QED BY <1>5, <1>6

\* The port in use is that of the settings.
LEMMA StartKeepsPort == ConfigInv /\ Start => ListensWherePortSays' /\ port' \in Ports
<1> SUFFICES ASSUME ConfigInv, Start
             PROVE  ListensWherePortSays' /\ port' \in Ports
  OBVIOUS
<1>1. ConfigTypeOK /\ FirstSettingWins
  BY DEF ConfigInv
<1>2. given' = given /\ env' = env /\ Settings("PORT")' = Settings("PORT")
  BY DEF Start, Settings, SettingLines
<1>3. "PORT" \in DOMAIN env <=> "PORT" \in DOMAIN given \/ Settings("PORT") # {}
  BY <1>1, ConfigAssumption DEF FirstSettingWins
<1>4. CASE "PORT" \notin DOMAIN env /\ Listen(18080)
  <2>1. 18080 % 65536 = 18080
    OBVIOUS
  <2>2. port' = 18080
    BY <1>4, <2>1 DEF Listen, Narrowed
  <2>3. port' \in Ports
    BY <2>2, PortsAre
  <2>4. PortOfSettings(port)'
    BY <1>2, <1>3, <1>4, <2>2 DEF PortOfSettings
  <2> QED BY <2>3, <2>4 DEF ListensWherePortSays
<1>5. CASE /\ "PORT" \in DOMAIN env /\ Stoi(env["PORT"]) # NoNumber
           /\ Listen(Stoi(env["PORT"]))
  <2> PICK n : n = Number(env["PORT"].text)
    OBVIOUS
  <2>1. env["PORT"] \in Values
    BY <1>1, <1>5 DEF ConfigTypeOK
  <2>2. Stoi(env["PORT"]) = n /\ n \in Int /\ n # NoNumber
    BY <1>5, <2>1, ConfigAssumption DEF Stoi, Values
  <2>3. port' = Narrowed(n)
    BY <1>5, <2>2 DEF Listen
  <2>4. port' \in Ports /\ (n - port') % 65536 = 0 /\ (n \in Ports => port' = n)
    BY <2>2, <2>3, Port16
  <2>5. ~(Settings("PORT") = {} /\ "PORT" \notin DOMAIN given)
    BY <1>3, <1>5
  <2>6. PortOfSettings(port)'
    BY <1>2, <2>2, <2>4, <2>5 DEF PortOfSettings
  <2> QED BY <2>4, <2>6 DEF ListensWherePortSays
<1>6. CASE serving' = "exited" /\ UNCHANGED port
  BY <1>1, <1>6 DEF ListensWherePortSays, ConfigTypeOK
<1> QED BY <1>4, <1>5, <1>6 DEF Start

\* Nothing of it depends on more than the environments and the files.
LEMMA SameFirst ==
    ASSUME given' = given, env' = env, files' = files, FirstSettingWins
    PROVE  FirstSettingWins'
<1>1. SettingLines' = SettingLines
  BY DEF SettingLines
<1>2. \A k : Settings(k)' = Settings(k)
  BY <1>1 DEF Settings
<1> QED BY <1>1, <1>2 DEF FirstSettingWins

\* Every step of the start keeps its invariant.
LEMMA ConfigStep == ConfigInv /\ [ConfigNext]_config => ConfigInv'
<1> SUFFICES ASSUME ConfigInv, [ConfigNext]_config PROVE ConfigInv'
  OBVIOUS
<1>1. /\ ConfigTypeOK /\ DOMAIN given \subseteq Keys
      /\ ReadInOrder /\ FirstSettingWins /\ ListensWherePortSays
  BY DEF ConfigInv
<1>2. ASSUME NEW l \in Pairs, ReadLine(l) PROVE ConfigInv'
  <2>1. FirstSettingWins'
    BY <1>2, ReadKeepsFirst
  <2>2. /\ given' = given /\ at' = at /\ serving' = serving /\ port' = port
        /\ at <= 2
    BY <1>2 DEF ReadLine
  <2>3. files' \in [1..2 -> Seq(Pairs)] /\ (at = 1 => files'[2] = <<>>)
    BY <1>1, <1>2, OneSettingMore
  <2>4. serving = "loading"
    BY <1>1, <2>2 DEF ReadInOrder, ConfigTypeOK
  <2>5. \A k \in DOMAIN env' : k \in Keys /\ env'[k] \in Values
    <3>1. l.key \in Keys \cup {""} /\ l.value \in Values
      BY <1>2 DEF Pairs
    <3>2. Unquoted(l.value) \in Values
      BY <3>1 DEF Unquoted, Plain, Values, Quotes
    <3>3. CASE l.key = "" \/ IsSet(l.key)
      BY <1>1, <1>2, <3>3 DEF ReadLine, ConfigTypeOK
    <3>4. CASE ~(l.key = "" \/ IsSet(l.key))
      <4>1. env' = [k \in DOMAIN env \cup {l.key} |->
                      IF k = l.key THEN Unquoted(l.value) ELSE env[k]]
        BY <1>2, <3>4 DEF ReadLine
      <4> QED BY <1>1, <3>1, <3>2, <3>4, <4>1 DEF ConfigTypeOK
    <3> QED BY <3>3, <3>4
  <2>6. ConfigTypeOK'
    BY <1>1, <2>2, <2>3, <2>5 DEF ConfigTypeOK
  <2>7. ReadInOrder' /\ ListensWherePortSays'
    BY <2>2, <2>3, <2>4 DEF ReadInOrder, ListensWherePortSays
  <2> QED BY <1>1, <2>1, <2>2, <2>6, <2>7 DEF ConfigInv
<1>3. CASE EndOfFile
  <2>1. /\ given' = given /\ env' = env /\ files' = files
        /\ serving' = serving /\ port' = port /\ at <= 2 /\ at' = at + 1
    BY <1>3 DEF EndOfFile
  <2>2. serving = "loading" /\ at \in 1..2
    BY <1>1, <2>1 DEF ReadInOrder, ConfigTypeOK
  <2>3. ConfigTypeOK' /\ ReadInOrder'
    BY <1>1, <2>1, <2>2 DEF ConfigTypeOK, ReadInOrder
  <2>4. FirstSettingWins'
    BY <1>1, <2>1, SameFirst
  <2>5. ListensWherePortSays'
    BY <2>1, <2>2 DEF ListensWherePortSays
  <2> QED BY <1>1, <2>1, <2>3, <2>4, <2>5 DEF ConfigInv
<1>4. CASE Start
  <2>1. ListensWherePortSays' /\ port' \in Ports
    BY <1>4, StartKeepsPort
  <2>2. /\ given' = given /\ env' = env /\ files' = files /\ at' = at /\ at = 3
        /\ serving' \in {"listening", "exited"}
    BY <1>4 DEF Start, Listen
  <2>3. ConfigTypeOK' /\ ReadInOrder'
    BY <1>1, <2>1, <2>2 DEF ConfigTypeOK, ReadInOrder
  <2>4. FirstSettingWins'
    BY <1>1, <2>2, SameFirst
  <2> QED BY <1>1, <2>1, <2>2, <2>3, <2>4 DEF ConfigInv
<1>5. CASE UNCHANGED config
  <2>1. /\ given' = given /\ env' = env /\ files' = files /\ at' = at
        /\ serving' = serving /\ port' = port
    BY <1>5 DEF config
  <2>2. ConfigTypeOK' /\ ReadInOrder'
    BY <1>1, <2>1 DEF ConfigTypeOK, ReadInOrder
  <2>3. FirstSettingWins'
    BY <1>1, <2>1, SameFirst
  <2>4. PortOfSettings(port)' <=> PortOfSettings(port)
    BY <2>1 DEF PortOfSettings, Settings, SettingLines
  <2>5. ListensWherePortSays'
    BY <1>1, <2>1, <2>4 DEF ListensWherePortSays
  <2> QED BY <1>1, <2>1, <2>2, <2>3, <2>5 DEF ConfigInv
<1> QED BY <1>2, <1>3, <1>4, <1>5 DEF ConfigNext

\* The invariant of the start holds in every state.
THEOREM ConfigInvariant == ConfigSpec => []ConfigInv
  BY InitConfig, ConfigStep, PTL DEF ConfigSpec

\* The environment holds variables with values, the port is a port: loadDotEnv
\* and the end of main.
THEOREM ConfigTypes == ConfigSpec => []ConfigTypeOK
<1>1. ConfigInv => ConfigTypeOK
  BY DEF ConfigInv
<1> QED BY <1>1, ConfigInvariant, PTL

\* The first line that sets a variable the process did not have is the one that
\* counts: setenvIfMissing looks before it sets, in the order of the files.
THEOREM SettingsWin == ConfigSpec => []FirstSettingWins
<1>1. ConfigInv => FirstSettingWins
  BY DEF ConfigInv
<1> QED BY <1>1, ConfigInvariant, PTL

\* The server listens on the 16 bits of the number in PORT, on 18080 without
\* one, or nowhere.
THEOREM PortListens == ConfigSpec => []ListensWherePortSays
<1>1. ConfigInv => ListensWherePortSays
  BY DEF ConfigInv
<1> QED BY <1>1, ConfigInvariant, PTL

----------------------------------------------------------------------------
(* The unwrapping of a review.                                               *)

\* Parts of a text.
LEMMA PiecesOf ==
    ASSUME NEW t \in Seq(Atoms), NEW a \in 1..Len(t), NEW b \in 0..Len(t)
    PROVE  /\ SubSeq(t, a, b) \in Seq(Atoms)
           /\ Len(SubSeq(t, a, b)) = IF a <= b THEN b - a + 1 ELSE 0
           /\ \A m \in 1..(b - a + 1) : SubSeq(t, a, b)[m] = t[a + m - 1]
  OBVIOUS

\* A part of a part.
LEMMA PieceOfPiece ==
    ASSUME NEW t \in Seq(Atoms), NEW d \in Nat, NEW w \in Seq(Atoms),
           NEW i \in 1..Len(t), NEW j \in 1..Len(t),
           i <= j, i - d \in 1..Len(w), j - d \in 1..Len(w)
    PROVE  (\A m \in 1..Len(w) : w[m] = t[m + d])
              => SubSeq(w, i - d, j - d) = SubSeq(t, i, j)
<1>1. SUFFICES ASSUME \A m \in 1..Len(w) : w[m] = t[m + d]
               PROVE  SubSeq(w, i - d, j - d) = SubSeq(t, i, j)
  OBVIOUS
<1> PICK x, y : x = SubSeq(w, i - d, j - d) /\ y = SubSeq(t, i, j)
  OBVIOUS
<1>2. /\ y \in Seq(Atoms) /\ Len(y) = j - i + 1
      /\ \A m \in 1..(j - i + 1) : y[m] = t[i + m - 1]
  BY PiecesOf
<1>3. /\ x \in Seq(Atoms) /\ Len(x) = (j - d) - (i - d) + 1
      /\ \A m \in 1..((j - d) - (i - d) + 1) : x[m] = w[i - d + m - 1]
  BY PiecesOf
<1>4. (j - d) - (i - d) + 1 = j - i + 1
  OBVIOUS
<1>5. ASSUME NEW m \in 1..(j - i + 1) PROVE x[m] = y[m]
  <2>1. x[m] = w[i - d + m - 1]
    BY <1>3, <1>4
  <2>2. y[m] = t[i + m - 1]
    BY <1>2
  <2>3. i - d + m - 1 \in 1..Len(w) /\ (i - d + m - 1) + d = i + m - 1
    OBVIOUS
  <2>4. w[i - d + m - 1] = t[(i - d + m - 1) + d]
    BY <1>1, <2>3
  <2> QED BY <2>1, <2>2, <2>3, <2>4
<1>6. Len(x) = Len(y) /\ \A m \in 1..Len(x) : x[m] = y[m]
  BY <1>2, <1>3, <1>4, <1>5
<1> QED BY <1>2, <1>3, <1>6, SeqEqual

\* trim_ws takes off what is white at both ends.
LEMMA TrimmedIs ==
    ASSUME NEW t \in Seq(Atoms), NEW i \in DOMAIN t, NEW j \in DOMAIN t, i <= j,
           t[i] # "space", t[j] # "space",
           \A k \in DOMAIN t : k < i \/ j < k => t[k] = "space"
    PROVE  Trimmed(t) = SubSeq(t, i, j)
<1> DEFINE solid == {k \in DOMAIN t : t[k] # "space"}
<1>1. i \in solid /\ j \in solid /\ solid \subseteq Nat
  OBVIOUS
<1>2. \A k \in solid : i <= k /\ k <= j
  OBVIOUS
<1>3. (CHOOSE k \in solid : \A m \in solid : k <= m) = i
  <2> HIDE DEF solid
  <2>1. \A k \in solid : (\A m \in solid : k <= m) => k = i
    BY <1>1, <1>2
  <2> QED BY <1>1, <1>2, <2>1
<1>4. (CHOOSE k \in solid : \A m \in solid : m <= k) = j
  <2> HIDE DEF solid
  <2>1. \A k \in solid : (\A m \in solid : m <= k) => k = j
    BY <1>1, <1>2
  <2> QED BY <1>1, <1>2, <2>1
<1>5. solid # {}
  BY <1>1
<1>6. Trimmed(t) = IF solid = {} THEN <<>>
                   ELSE SubSeq(t, CHOOSE k \in solid : \A m \in solid : k <= m,
                                  CHOOSE k \in solid : \A m \in solid : m <= k)
  BY DEF Trimmed
<1> QED BY <1>3, <1>4, <1>5, <1>6

\* A fence that no other follows is the one that rfind finds.
LEMMA CutAtLastFence ==
    ASSUME NEW t \in Seq(Atoms), NEW k \in DOMAIN t, t[k] = "fence",
           \A m \in DOMAIN t : k < m => t[m] # "fence"
    PROVE  UpToLastFence(t) = SubSeq(t, 1, k - 1)
<1> DEFINE fs == Fences(t)
<1>1. k \in fs /\ fs \subseteq Nat
  BY DEF Fences
<1>2. \A m \in fs : m <= k
  BY DEF Fences
<1>3. (CHOOSE m \in fs : \A n \in fs : n <= m) = k
  <2> HIDE DEF fs
  <2>1. \A m \in fs : (\A n \in fs : n <= m) => m = k
    BY <1>1, <1>2
  <2> QED BY <1>1, <1>2, <2>1
<1>4. UpToLastFence(t) = IF fs = {} THEN t
                         ELSE SubSeq(t, 1, (CHOOSE m \in fs : \A n \in fs : n <= m) - 1)
  BY DEF UpToLastFence
<1> QED BY <1>1, <1>3, <1>4

\* A JSON value begins and ends with something of its own.
LEMMA EndsOfValue ==
    ASSUME NEW t \in Seq(Atoms), NEW i \in DOMAIN t, NEW j \in DOMAIN t, i <= j,
           IsJson(SubSeq(t, i, j))
    PROVE  t[i] \in {"value", "open"} /\ t[j] \in {"value", "close"}
<1> PICK v : v = SubSeq(t, i, j)
  OBVIOUS
<1>1. /\ v \in Seq(Atoms) /\ Len(v) = j - i + 1
      /\ \A m \in 1..(j - i + 1) : v[m] = t[i + m - 1]
  BY PiecesOf
<1>2. v[1] = t[i] /\ v[Len(v)] = t[j]
  BY <1>1
<1>3. CASE v = <<"value">>
  <2>1. Len(v) = 1 /\ v[1] = "value"
    BY <1>3
  <2> QED BY <1>2, <2>1
<1>4. CASE v[1] = "open" /\ v[Len(v)] = "close"
  BY <1>2, <1>4
<1> QED BY <1>3, <1>4 DEF IsJson

\* What a text begins with.
LEMMA BeginsWith ==
    ASSUME NEW t \in Seq(Atoms)
    PROVE  /\ IsPrefix(<<"fence">>, t) <=> 1 <= Len(t) /\ t[1] = "fence"
           /\ IsPrefix(<<"fence", "json">>, t)
                <=> 2 <= Len(t) /\ t[1] = "fence" /\ t[2] = "json"
<1> PICK f, g : f = <<"fence">> /\ g = <<"fence", "json">>
  OBVIOUS
<1>1. /\ f \in Seq(Atoms) /\ Len(f) = 1 /\ f[1] = "fence"
      /\ g \in Seq(Atoms) /\ Len(g) = 2 /\ g[1] = "fence" /\ g[2] = "json"
  BY DEF Atoms
<1>2. SubSeq(f, 1, 1) = f /\ SubSeq(g, 1, 2) = g
  <2> PICK x, y : x = SubSeq(f, 1, 1) /\ y = SubSeq(g, 1, 2)
    OBVIOUS
  <2>1. x \in Seq(Atoms) /\ Len(x) = 1 /\ x[1] = f[1]
    BY <1>1
  <2>2. y \in Seq(Atoms) /\ Len(y) = 2 /\ y[1] = g[1] /\ y[2] = g[2]
    BY <1>1
  <2>3. x = f
    <3>1. Len(x) = Len(f) /\ \A m \in 1..Len(x) : x[m] = f[m]
      BY <1>1, <2>1
    <3> QED BY <1>1, <2>1, <3>1, SeqEqual
  <2>4. y = g
    <3>1. Len(y) = Len(g) /\ \A m \in 1..Len(y) : y[m] = g[m]
      BY <1>1, <2>2
    <3> QED BY <1>1, <2>2, <3>1, SeqEqual
  <2> QED BY <2>3, <2>4
<1>3. ASSUME NEW a \in Seq(Atoms)
      PROVE  IsPrefix(a, t) <=> Len(a) <= Len(t)
                                  /\ SubSeq(a, 1, Len(a)) = SubSeq(t, 1, Len(a))
  BY DEF IsPrefix
<1>4. IsPrefix(f, t) <=> 1 <= Len(t) /\ t[1] = "fence"
  <2>1. IsPrefix(f, t) <=> 1 <= Len(t) /\ f = SubSeq(t, 1, 1)
    BY <1>1, <1>2, <1>3
  <2>2. ASSUME 1 <= Len(t) PROVE f = SubSeq(t, 1, 1) <=> t[1] = "fence"
    <3> PICK x : x = SubSeq(t, 1, 1)
      OBVIOUS
    <3>1. x \in Seq(Atoms) /\ Len(x) = 1 /\ x[1] = t[1]
      BY <2>2
    <3>2. t[1] = "fence" => \A m \in 1..Len(f) : f[m] = x[m]
      BY <1>1, <3>1
    <3>3. t[1] = "fence" => f = x
      BY <1>1, <3>1, <3>2, SeqEqual
    <3> QED BY <1>1, <3>1, <3>3
  <2> QED BY <2>1, <2>2
<1>5. IsPrefix(g, t) <=> 2 <= Len(t) /\ t[1] = "fence" /\ t[2] = "json"
  <2>1. IsPrefix(g, t) <=> 2 <= Len(t) /\ g = SubSeq(t, 1, 2)
    BY <1>1, <1>2, <1>3
  <2>2. ASSUME 2 <= Len(t)
        PROVE  g = SubSeq(t, 1, 2) <=> t[1] = "fence" /\ t[2] = "json"
    <3> PICK x : x = SubSeq(t, 1, 2)
      OBVIOUS
    <3>1. x \in Seq(Atoms) /\ Len(x) = 2 /\ x[1] = t[1] /\ x[2] = t[2]
      BY <2>2
    <3>2. t[1] = "fence" /\ t[2] = "json" => \A m \in 1..Len(g) : g[m] = x[m]
      BY <1>1, <3>1
    <3>3. t[1] = "fence" /\ t[2] = "json" => g = x
      BY <1>1, <3>1, <3>2, SeqEqual
    <3> QED BY <1>1, <3>1, <3>3
  <2> QED BY <2>1, <2>2
<1> QED BY <1>4, <1>5

\* A value with white space around it.
LEMMA PlainUnwrapped ==
    ASSUME NEW t \in Seq(Atoms), NEW i \in DOMAIN t, NEW j \in DOMAIN t, i <= j,
           IsJson(SubSeq(t, i, j)),
           \A k \in DOMAIN t : k < i \/ j < k => t[k] = "space"
    PROVE  Trimmed(Cleaned(t)) = SubSeq(t, i, j)
<1>1. t[i] \in {"value", "open"} /\ t[j] \in {"value", "close"}
  BY EndsOfValue
<1>2. t[1] # "fence"
  <2>1. i = 1 \/ t[1] = "space"
    OBVIOUS
  <2> QED BY <1>1, <2>1
<1>3. Cleaned(t) = t
  BY <1>2, BeginsWith DEF Cleaned
<1>4. t[i] # "space" /\ t[j] # "space"
  BY <1>1
<1>5. Trimmed(t) = SubSeq(t, i, j)
  BY <1>4, TrimmedIs
<1> QED BY <1>3, <1>5

\* The rest of a text after its first d pieces.
LEMMA Rest ==
    ASSUME NEW t \in Seq(Atoms), NEW d \in 1..2, d <= Len(t)
    PROVE  \E u \in Seq(Atoms) :
              /\ u = SubSeq(t, d + 1, Len(t)) /\ (d = 1 => u = Tail(t))
              /\ Len(u) = Len(t) - d
              /\ \A m \in 1..Len(u) : u[m] = t[m + d]
<1> PICK u : u = SubSeq(t, d + 1, Len(t))
  OBVIOUS
<1>1. u \in Seq(Atoms) /\ Len(u) = Len(t) - d
  OBVIOUS
<1>2. \A m \in 1..(Len(t) - (d + 1) + 1) : u[m] = t[(d + 1) + m - 1]
  OBVIOUS
<1>3. ASSUME NEW m \in 1..Len(u) PROVE u[m] = t[m + d]
  <2>1. m \in 1..(Len(t) - (d + 1) + 1) /\ (d + 1) + m - 1 = m + d
    BY <1>1
  <2>2. u[m] = t[(d + 1) + m - 1]
    BY <1>2, <2>1
  <2> QED BY <2>1, <2>2
<1>4. ASSUME d = 1 PROVE u = Tail(t)
  <2> PICK x : x = Tail(t)
    OBVIOUS
  <2>1. t # <<>>
    OBVIOUS
  <2>2. x \in Seq(Atoms) /\ Len(x) = Len(t) - 1 /\ \A m \in 1..Len(x) : x[m] = t[m + 1]
    BY <2>1
  <2>3. Len(u) = Len(x) /\ \A m \in 1..Len(u) : u[m] = x[m]
    BY <1>1, <1>3, <1>4, <2>2
  <2> QED BY <1>1, <2>2, <2>3, SeqEqual
<1> QED BY <1>1, <1>3, <1>4

\* A value in a block that opens with d pieces and closes with the fence at k.
LEMMA BlockUnwrapped ==
    ASSUME NEW t \in Seq(Atoms), NEW i \in 1..Len(t), NEW j \in 1..Len(t),
           NEW k \in 1..Len(t), NEW d \in 1..2, d < i, i <= j, j < k
    PROVE  (/\ IsJson(SubSeq(t, i, j)) /\ t[1] = "fence" /\ t[k] = "fence"
            /\ d = 2 <=> t[2] = "json"
            /\ \A m \in (d + 1)..(i - 1) : t[m] = "space"
            /\ \A m \in (j + 1)..(k - 1) : t[m] = "space"
            /\ \A m \in (k + 1)..Len(t) : t[m] # "fence")
               => Trimmed(Cleaned(t)) = SubSeq(t, i, j)
<1>1. SUFFICES ASSUME IsJson(SubSeq(t, i, j)), t[1] = "fence", t[k] = "fence",
                      d = 2 <=> t[2] = "json",
                      \A m \in (d + 1)..(i - 1) : t[m] = "space",
                      \A m \in (j + 1)..(k - 1) : t[m] = "space",
                      \A m \in (k + 1)..Len(t) : t[m] # "fence"
               PROVE  Trimmed(Cleaned(t)) = SubSeq(t, i, j)
  OBVIOUS
<1>2. t[i] # "space" /\ t[j] # "space"
  BY <1>1, EndsOfValue
<1>3. PICK u \in Seq(Atoms) :
         /\ u = SubSeq(t, d + 1, Len(t)) /\ (d = 1 => u = Tail(t))
         /\ Len(u) = Len(t) - d
         /\ \A m \in 1..Len(u) : u[m] = t[m + d]
  <2>1. d <= Len(t)
    OBVIOUS
  <2> QED BY <2>1, Rest
<1>4. Cleaned(t) = UpToLastFence(u)
  <2>1. CASE d = 1
    <3>1. t[2] # "json" /\ u = Tail(t) /\ 1 <= Len(t)
      BY <1>1, <1>3, <2>1
    <3>2. IsPrefix(<<"fence">>, t) /\ ~IsPrefix(<<"fence", "json">>, t)
      BY <1>1, <3>1, BeginsWith
    <3> QED BY <3>1, <3>2 DEF Cleaned
  <2>2. CASE d = 2
    <3>1. t[2] = "json" /\ u = SubSeq(t, 3, Len(t)) /\ 2 <= Len(t)
      BY <1>1, <1>3, <2>2
    <3>2. IsPrefix(<<"fence", "json">>, t)
      BY <1>1, <3>1, BeginsWith
    <3> QED BY <3>1, <3>2 DEF Cleaned
  <2> QED BY <2>1, <2>2
<1>5. k - d \in 1..Len(u) /\ DOMAIN u = 1..Len(u)
  BY <1>3
<1>6. UpToLastFence(u) = SubSeq(u, 1, k - d - 1)
  <2>1. u[k - d] = "fence"
    <3>1. u[k - d] = t[(k - d) + d]
      BY <1>3, <1>5
    <3>2. (k - d) + d = k
      OBVIOUS
    <3> QED BY <1>1, <3>1, <3>2
  <2>2. ASSUME NEW m \in 1..Len(u), k - d < m PROVE u[m] # "fence"
    <3>1. u[m] = t[m + d]
      BY <1>3
    <3>2. Len(u) = Len(t) - d /\ Len(t) \in Nat
      BY <1>3
    <3>3. m + d \in (k + 1)..Len(t)
      BY <2>2, <3>2
    <3> QED BY <1>1, <3>1, <3>3
  <2> QED BY <1>5, <2>1, <2>2, CutAtLastFence
<1>7. PICK w : w = SubSeq(u, 1, k - d - 1)
  OBVIOUS
<1>8. /\ w \in Seq(Atoms) /\ Len(w) = k - d - 1
      /\ \A m \in 1..Len(w) : w[m] = t[m + d]
  <2>1. k - d - 1 \in 0..Len(u) /\ 1 \in 1..Len(u)
    BY <1>5
  <2>2. /\ w \in Seq(Atoms)
        /\ Len(w) = IF 1 <= k - d - 1 THEN (k - d - 1) - 1 + 1 ELSE 0
        /\ \A m \in 1..((k - d - 1) - 1 + 1) : w[m] = u[1 + m - 1]
    BY <1>7, <2>1, PiecesOf
  <2>3. Len(w) = k - d - 1
    BY <2>1, <2>2
  <2>4. ASSUME NEW m \in 1..Len(w) PROVE w[m] = t[m + d]
    <3>1. m \in 1..((k - d - 1) - 1 + 1) /\ 1 + m - 1 = m /\ m \in 1..Len(u)
      BY <1>5, <2>3
    <3>2. w[m] = u[m]
      BY <2>2, <3>1
    <3> QED BY <1>3, <3>1, <3>2
  <2> QED BY <2>2, <2>3, <2>4
<1>9. i - d \in 1..Len(w) /\ j - d \in 1..Len(w) /\ i - d <= j - d
  BY <1>8
<1>10. w[i - d] = t[i] /\ w[j - d] = t[j]
  <2>1. (i - d) + d = i /\ (j - d) + d = j
    OBVIOUS
  <2> QED BY <1>8, <1>9, <2>1
<1>11. ASSUME NEW m \in 1..Len(w), m < i - d \/ j - d < m PROVE w[m] = "space"
  <2>1. w[m] = t[m + d]
    BY <1>8
  <2>2. m + d \in (d + 1)..(i - 1) \/ m + d \in (j + 1)..(k - 1)
    BY <1>8, <1>11
  <2> QED BY <1>1, <2>1, <2>2
<1>12. Trimmed(w) = SubSeq(w, i - d, j - d)
  <2>1. DOMAIN w = 1..Len(w)
    BY <1>8
  <2>2. w[i - d] # "space" /\ w[j - d] # "space"
    BY <1>2, <1>10
  <2> QED BY <1>8, <1>9, <1>11, <2>1, <2>2, TrimmedIs
<1>13. SubSeq(w, i - d, j - d) = SubSeq(t, i, j)
  BY <1>8, <1>9, PieceOfPiece
<1> QED BY <1>4, <1>6, <1>7, <1>12, <1>13

----------------------------------------------------------------------------
\* What the handler makes of a response file with a text in it.
Outcome(t) ==
    IF IsJson(Trimmed(Cleaned(t)))
    THEN [status |-> 200, body |-> Trimmed(Cleaned(t))]
    ELSE Error("Could not parse LLM output")

\* There is a text in a file for texts only, and an answer is given once, from
\* the text as it stands.
ReplyInv ==
    /\ replyFile \in Files /\ text \in Seq(Atoms)
    /\ replyFile # "text" => text = <<>>
    /\ response # NoResponse /\ replyFile = "text" => response = Outcome(text)

\* Every step of the unwrapping keeps its invariant.
LEMMA ReplyStep == ReplyInv /\ [ReplyNext]_unwrapping => ReplyInv'
<1> SUFFICES ASSUME ReplyInv, [ReplyNext]_unwrapping PROVE ReplyInv'
  OBVIOUS
<1>1. ASSUME NEW a \in Atoms, Write(a) PROVE ReplyInv'
  BY <1>1 DEF ReplyInv, Write
<1>2. ASSUME NEW r, replyFile # "text", Respond(r) PROVE ReplyInv'
  BY <1>2 DEF ReplyInv, Respond
<1>3. ASSUME Respond(Outcome(text)) PROVE ReplyInv'
  BY <1>3 DEF ReplyInv, Respond
<1>4. ASSUME NoReply \/ BadReply \/ ErrorReply \/ OtherReply PROVE ReplyInv'
  <2>1. \E r : replyFile # "text" /\ Respond(r)
    BY <1>4 DEF NoReply, BadReply, ErrorReply, OtherReply
  <2> QED BY <1>2, <2>1
<1>5. ASSUME BadText \/ Review PROVE ReplyInv'
  <2>1. Respond(Outcome(text))
    BY <1>5 DEF BadText, Review, Outcome
  <2> QED BY <1>3, <2>1
<1>6. CASE UNCHANGED unwrapping
  BY <1>6 DEF ReplyInv, unwrapping
<1> QED BY <1>1, <1>4, <1>5, <1>6 DEF ReplyNext

\* The invariant of the unwrapping holds in every state.
THEOREM ReplyInvariant == ReplySpec => []ReplyInv
<1>1. ReplyInit => ReplyInv
  BY DEF ReplyInit, ReplyInv
<1> QED BY <1>1, ReplyStep, PTL DEF ReplySpec

\* What the caller gets when there is a value in the text.
LEMMA OutcomeOfValue ==
    ASSUME ReplyInv, response # NoResponse,
           NEW i \in DOMAIN text, NEW j \in DOMAIN text, IsJson(SubSeq(text, i, j)),
           Trimmed(Cleaned(text)) = SubSeq(text, i, j)
    PROVE  response = [status |-> 200, body |-> SubSeq(text, i, j)]
<1>1. replyFile = "text"
  <2>1. text = <<>> => DOMAIN text = {}
    OBVIOUS
  <2> QED BY <2>1 DEF ReplyInv
<1>2. response = Outcome(text)
  BY <1>1 DEF ReplyInv
<1> QED BY <1>2 DEF Outcome

\* A value in a block.
LEMMA BlocksArrive == ReplyInv => BlockIsUnwrapped
<1> SUFFICES ASSUME ReplyInv, response # NoResponse,
                    NEW i \in DOMAIN text, NEW j \in DOMAIN text, BlockOf(i, j)
             PROVE  response = [status |-> 200, body |-> SubSeq(text, i, j)]
  BY DEF BlockIsUnwrapped
<1> PICK t : t = text
  OBVIOUS
<1>1. t \in Seq(Atoms) /\ i \in 1..Len(t) /\ j \in 1..Len(t)
  BY DEF ReplyInv
<1>2. i <= j /\ IsJson(SubSeq(t, i, j)) /\ t[1] = "fence"
  BY DEF BlockOf, Inside
<1>3. PICK k \in (j + 1)..Len(t) :
         /\ t[k] = "fence" /\ \A m \in (j + 1)..(k - 1) : t[m] = "space"
         /\ \A m \in (k + 1)..Len(t) : t[m] # "fence"
  BY DEF BlockOf, Spaces
<1>4. t[i] \in {"value", "open"}
  <2>1. DOMAIN t = 1..Len(t)
    BY <1>1
  <2> QED BY <1>1, <1>2, <2>1, EndsOfValue
<1>5. 2 <= i
  BY <1>1, <1>2, <1>4
<1>6. (\A m \in 2..(i - 1) : t[m] = "space")
        \/ (t[2] = "json" /\ \A m \in 3..(i - 1) : t[m] = "space")
  BY DEF BlockOf, Spaces
<1>7. PICK d \in 1..2 : /\ d = 2 <=> t[2] = "json"
                        /\ d < i /\ \A m \in (d + 1)..(i - 1) : t[m] = "space"
  <2>1. CASE t[2] = "json"
    <3>1. i # 2
      BY <1>4, <2>1
    <3>2. \A m \in 3..(i - 1) : t[m] = "space"
      BY <1>5, <1>6
    <3>3. 2 < i /\ 2 + 1 = 3
      BY <1>1, <1>5, <3>1
    <3> QED BY <2>1, <3>2, <3>3
  <2>2. CASE t[2] # "json"
    BY <1>1, <1>5, <1>6, <2>2
  <2> QED BY <2>1, <2>2
<1>8. k \in 1..Len(t) /\ j < k
  BY <1>1, <1>3
<1>9. Trimmed(Cleaned(t)) = SubSeq(t, i, j)
  BY <1>1, <1>2, <1>3, <1>7, <1>8, BlockUnwrapped
<1> QED BY <1>2, <1>9, OutcomeOfValue

\* A value without a block.
LEMMA PlainTextsArrive == ReplyInv => PlainIsKept
<1> SUFFICES ASSUME ReplyInv, response # NoResponse,
                    NEW i \in DOMAIN text, NEW j \in DOMAIN text, Inside(i, j),
                    Spaces(1, i - 1), Spaces(j + 1, Len(text))
             PROVE  response = [status |-> 200, body |-> SubSeq(text, i, j)]
  BY DEF PlainIsKept
<1>1. i <= j /\ IsJson(SubSeq(text, i, j)) /\ text \in Seq(Atoms)
  BY DEF Inside, ReplyInv
<1>2. ASSUME NEW k \in DOMAIN text, k < i \/ j < k PROVE text[k] = "space"
  <2>1. k \in 1..(i - 1) \/ k \in (j + 1)..Len(text)
    BY <1>1, <1>2
  <2> QED BY <2>1 DEF Spaces
<1>3. Trimmed(Cleaned(text)) = SubSeq(text, i, j)
  BY <1>1, <1>2, PlainUnwrapped
<1> QED BY <1>1, <1>3, OutcomeOfValue

\* An answer with a status and, if need be, a reason.
LEMMA RespondTypes ==
    ASSUME ReplyTypeOK, NEW r, Respond(r), r.status \in {200, 500},
           r.status = 500 => Len(r.body) = 1
    PROVE  ReplyTypeOK'
  BY DEF ReplyTypeOK, Respond

\* The status of an answer is 200 or 500, with one reason in the latter case:
\* the ways out of /evaluate after curl.
THEOREM ReplyTypes == ReplySpec => []ReplyTypeOK
<1>1. ReplyInit => ReplyTypeOK
  BY DEF ReplyInit, ReplyTypeOK, NoResponse
<1>2. ReplyTypeOK /\ [ReplyNext]_unwrapping => ReplyTypeOK'
  <2> SUFFICES ASSUME ReplyTypeOK, [ReplyNext]_unwrapping PROVE ReplyTypeOK'
    OBVIOUS
  <2>1. ASSUME NEW a \in Atoms, Write(a) PROVE ReplyTypeOK'
    BY <2>1 DEF ReplyTypeOK, Write
  <2>2. ASSUME NEW w PROVE Error(w).status = 500 /\ Len(Error(w).body) = 1
    BY DEF Error
  <2>3. ASSUME NEW w, Respond(Error(w)) PROVE ReplyTypeOK'
    <3> PICK r : r = Error(w)
      OBVIOUS
    <3>1. r.status = 500 /\ Len(r.body) = 1 /\ Respond(r)
      BY <2>2, <2>3
    <3> QED BY <3>1, RespondTypes
  <2>4. ASSUME NEW b, Respond([status |-> 200, body |-> b]) PROVE ReplyTypeOK'
    <3> PICK r : r = [status |-> 200, body |-> b]
      OBVIOUS
    <3>1. r.status = 200 /\ Respond(r)
      BY <2>4
    <3> QED BY <3>1, RespondTypes
  <2>5. CASE NoReply
    BY <2>4, <2>5 DEF NoReply, Fallback
  <2>6. CASE BadReply \/ ErrorReply \/ OtherReply \/ BadText
    BY <2>3, <2>6 DEF BadReply, ErrorReply, OtherReply, BadText
  <2>7. CASE Review
    BY <2>4, <2>7 DEF Review
  <2>8. CASE UNCHANGED unwrapping
    BY <2>8 DEF ReplyTypeOK, unwrapping
  <2> QED BY <2>1, <2>5, <2>6, <2>7, <2>8 DEF ReplyNext
<1> QED BY <1>1, <1>2, PTL DEF ReplySpec

\* A review is the value in the model's text, in a markdown block or without one,
\* whatever the length of the text and whatever the value holds.
THEOREM ReviewsArrive == ReplySpec => []ReviewArrivesWhole
<1>1. ReplyInv => ReviewArrivesWhole
  BY BlocksArrive, PlainTextsArrive DEF ReviewArrivesWhole
<1> QED BY <1>1, ReplyInvariant, PTL

----------------------------------------------------------------------------
(* The parts side by side.                                                   *)

partsVars == <<work, ranking, profile, parser, match, config, unwrapping, naming>>

\* All parts begin as they do alone.  (A directory that is not being ranked is
\* given entries that load, so there has to be such an entry.)
LEMMA PartsBegin ==
    ASSUME Titles # {}, Scores # {}, Garbage # {}, PartsInit
    PROVE  /\ RankingInit /\ ProfileInit /\ ParserInit /\ MatchInit
           /\ ConfigInit /\ ReplyInit /\ NameInit
<1>1. ProfileInit /\ ParserInit /\ MatchInit /\ NameInit
  BY DEF PartsInit
<1>2. RankingInit
  <2>1. CASE work = "ranking"
    BY <2>1 DEF PartsInit
  <2>2. CASE work # "ranking"
    <3>1. PICK t \in Titles, n \in Scores : TRUE
      OBVIOUS
    <3>2. [title |-> t, percentage |-> n, throws |-> FALSE] \in Contents
      BY DEF Contents
    <3>3. PICK e : e = CHOOSE c \in Contents : ~c.throws
      OBVIOUS
    <3>4. e \in Contents
      BY <3>2, <3>3
    <3>5. PICK g : g = CHOOSE x \in Garbage : TRUE
      OBVIOUS
    <3>6. g \in Garbage
      BY <3>5
    <3>7. /\ file = [p \in Profiles |-> e] /\ bestMatch = g
          /\ pc = "scan" /\ unread = Profiles /\ allResults = <<>>
          /\ bestRole = "" /\ bestScore = NoScore /\ data = NoData
      BY <2>2, <3>3, <3>5 DEF PartsInit, RankingStands
    <3> QED BY <3>4, <3>6, <3>7 DEF RankingInit
  <2> QED BY <2>1, <2>2
<1>3. ConfigInit
  <2>1. CASE work = "config"
    BY <2>1 DEF PartsInit
  <2>2. CASE work # "config"
    <3>1. /\ given = <<>> /\ env = <<>> /\ files = <<<<>>, <<>>>>
          /\ at = 1 /\ serving = "loading" /\ port = 0
      BY <2>2 DEF PartsInit, ConfigStands
    <3>2. <<>> \in [{} -> {Plain(t) : t \in ValueTexts}] /\ {} \in SUBSET Keys
      OBVIOUS
    <3> QED BY <3>1, <3>2 DEF ConfigInit
  <2> QED BY <2>1, <2>2
<1>4. ReplyInit
  <2>1. CASE work = "unwrapping"
    BY <2>1 DEF PartsInit
  <2>2. CASE work # "unwrapping"
    BY <2>2 DEF PartsInit, ReplyStands, ReplyInit, Files
  <2> QED BY <2>1, <2>2
<1> QED BY <1>1, <1>2, <1>3, <1>4

\* A step of one part is a step of it or none, and leaves the others alone.
LEMMA PartsStep ==
    ASSUME [PartsNext]_partsVars
    PROVE  /\ [RankingNext]_ranking
           /\ [ProfileNext]_profile
           /\ [ParserNext]_parser
           /\ [MatchNext]_match
           /\ [ConfigNext]_config
           /\ [ReplyNext]_unwrapping
           /\ [NameNext]_naming
<1>1. CASE Rank
  BY <1>1 DEF Rank
<1>2. CASE LoadProfile
  BY <1>2 DEF LoadProfile
<1>3. CASE ParseResume
  BY <1>3 DEF ParseResume
<1>4. CASE BuildMatch
  BY <1>4 DEF BuildMatch
<1>5. CASE StartServer
  BY <1>5 DEF StartServer
<1>6. CASE Unwrap
  BY <1>6 DEF Unwrap
<1>7. CASE ExtractName
  BY <1>7 DEF ExtractName
<1>8. CASE UNCHANGED partsVars
  BY <1>8 DEF partsVars
<1> QED BY <1>1, <1>2, <1>3, <1>4, <1>5, <1>6, <1>7, <1>8 DEF PartsNext

\* Side by side every part does what it may do alone, and no more.
LEMMA PartsRunAlone ==
    ASSUME Titles # {}, Scores # {}, Garbage # {}
    PROVE  PartsSpec =>
              /\ RankingSpec /\ ProfileSpec /\ ParserSpec /\ MatchSpec
              /\ ConfigSpec /\ ReplySpec /\ NameSpec
<1>1. PartsInit => /\ RankingInit /\ ProfileInit /\ ParserInit /\ MatchInit
                   /\ ConfigInit /\ ReplyInit /\ NameInit
  BY PartsBegin
<1>2. [PartsNext]_partsVars => [RankingNext]_ranking
  BY PartsStep
<1>3. [PartsNext]_partsVars => [ProfileNext]_profile
  BY PartsStep
<1>4. [PartsNext]_partsVars => [ParserNext]_parser
  BY PartsStep
<1>5. [PartsNext]_partsVars => [MatchNext]_match
  BY PartsStep
<1>6. [PartsNext]_partsVars => [ConfigNext]_config
  BY PartsStep
<1>7. [PartsNext]_partsVars => [ReplyNext]_unwrapping
  BY PartsStep
<1>8. [PartsNext]_partsVars => [NameNext]_naming
  BY PartsStep
<1>9. PartsSpec => PartsInit /\ [][PartsNext]_partsVars
  BY DEF PartsSpec, partsVars
<1> QED BY <1>1, <1>2, <1>3, <1>4, <1>5, <1>6, <1>7, <1>8, <1>9, PTL
       DEF RankingSpec, ProfileSpec, ParserSpec, MatchSpec, ConfigSpec, ReplySpec,
           NameSpec

\* The part that runs, and the others as they stand in PartsInit.
OnlyWork(part) ==
    /\ work = part
    /\ part # "ranking" => RankingStands
    /\ part # "profile" => ProfileInit
    /\ part # "parser" => ParserInit
    /\ part # "match" => MatchInit
    /\ part # "config" => ConfigStands
    /\ part # "unwrapping" => ReplyStands
    /\ part # "naming" => NameInit

\* Side by side every part does all that it does alone: a behaviour of one part
\* while the others stand still, from any of its initial states, is one of the
\* seven together.  So what holds of a part in them, holds of it.
THEOREM PartsDoAllTheirWork ==
    ASSUME {"ranking", "profile", "parser", "match", "config", "unwrapping", "naming"}
               \subseteq Parts
    PROVE  /\ RankingSpec /\ OnlyWork("ranking")
                 /\ [][FALSE]_<<work, profile, parser, match, config, unwrapping, naming>>
              => PartsSpec
           /\ ProfileSpec /\ OnlyWork("profile")
                 /\ [][FALSE]_<<work, ranking, parser, match, config, unwrapping, naming>>
              => PartsSpec
           /\ ParserSpec /\ OnlyWork("parser")
                 /\ [][FALSE]_<<work, ranking, profile, match, config, unwrapping, naming>>
              => PartsSpec
           /\ MatchSpec /\ OnlyWork("match")
                 /\ [][FALSE]_<<work, ranking, profile, parser, config, unwrapping, naming>>
              => PartsSpec
           /\ ConfigSpec /\ OnlyWork("config")
                 /\ [][FALSE]_<<work, ranking, profile, parser, match, unwrapping, naming>>
              => PartsSpec
           /\ ReplySpec /\ OnlyWork("unwrapping")
                 /\ [][FALSE]_<<work, ranking, profile, parser, match, config, naming>>
              => PartsSpec
           /\ NameSpec /\ OnlyWork("naming")
                 /\ [][FALSE]_<<work, ranking, profile, parser, match, config, unwrapping>>
              => PartsSpec
<1>1. RankingSpec /\ OnlyWork("ranking")
         /\ [][FALSE]_<<work, profile, parser, match, config, unwrapping, naming>>
      => PartsSpec
  <2>1. RankingInit /\ OnlyWork("ranking") => PartsInit /\ work = "ranking"
    BY DEF OnlyWork, PartsInit
  <2>2. work = "ranking" /\ [RankingNext]_ranking
           /\ [FALSE]_<<work, profile, parser, match, config, unwrapping, naming>>
        => [PartsNext]_partsVars /\ (work = "ranking")'
    BY DEF PartsNext, Rank, partsVars
  <2> QED BY <2>1, <2>2, PTL DEF RankingSpec, PartsSpec, partsVars
<1>2. ProfileSpec /\ OnlyWork("profile")
         /\ [][FALSE]_<<work, ranking, parser, match, config, unwrapping, naming>>
      => PartsSpec
  <2>1. ProfileInit /\ OnlyWork("profile") => PartsInit /\ work = "profile"
    BY DEF OnlyWork, PartsInit
  <2>2. work = "profile" /\ [ProfileNext]_profile
           /\ [FALSE]_<<work, ranking, parser, match, config, unwrapping, naming>>
        => [PartsNext]_partsVars /\ (work = "profile")'
    BY DEF PartsNext, LoadProfile, partsVars
  <2> QED BY <2>1, <2>2, PTL DEF ProfileSpec, PartsSpec, partsVars
<1>3. ParserSpec /\ OnlyWork("parser")
         /\ [][FALSE]_<<work, ranking, profile, match, config, unwrapping, naming>>
      => PartsSpec
  <2>1. ParserInit /\ OnlyWork("parser") => PartsInit /\ work = "parser"
    BY DEF OnlyWork, PartsInit
  <2>2. work = "parser" /\ [ParserNext]_parser
           /\ [FALSE]_<<work, ranking, profile, match, config, unwrapping, naming>>
        => [PartsNext]_partsVars /\ (work = "parser")'
    BY DEF PartsNext, ParseResume, partsVars
  <2> QED BY <2>1, <2>2, PTL DEF ParserSpec, PartsSpec, partsVars
<1>4. MatchSpec /\ OnlyWork("match")
         /\ [][FALSE]_<<work, ranking, profile, parser, config, unwrapping, naming>>
      => PartsSpec
  <2>1. MatchInit /\ OnlyWork("match") => PartsInit /\ work = "match"
    BY DEF OnlyWork, PartsInit
  <2>2. work = "match" /\ [MatchNext]_match
           /\ [FALSE]_<<work, ranking, profile, parser, config, unwrapping, naming>>
        => [PartsNext]_partsVars /\ (work = "match")'
    BY DEF PartsNext, BuildMatch, partsVars
  <2> QED BY <2>1, <2>2, PTL DEF MatchSpec, PartsSpec, partsVars
<1>5. ConfigSpec /\ OnlyWork("config")
         /\ [][FALSE]_<<work, ranking, profile, parser, match, unwrapping, naming>>
      => PartsSpec
  <2>1. ConfigInit /\ OnlyWork("config") => PartsInit /\ work = "config"
    BY DEF OnlyWork, PartsInit
  <2>2. work = "config" /\ [ConfigNext]_config
           /\ [FALSE]_<<work, ranking, profile, parser, match, unwrapping, naming>>
        => [PartsNext]_partsVars /\ (work = "config")'
    BY DEF PartsNext, StartServer, partsVars
  <2> QED BY <2>1, <2>2, PTL DEF ConfigSpec, PartsSpec, partsVars
<1>6. ReplySpec /\ OnlyWork("unwrapping")
         /\ [][FALSE]_<<work, ranking, profile, parser, match, config, naming>>
      => PartsSpec
  <2>1. ReplyInit /\ OnlyWork("unwrapping") => PartsInit /\ work = "unwrapping"
    BY DEF OnlyWork, PartsInit
  <2>2. work = "unwrapping" /\ [ReplyNext]_unwrapping
           /\ [FALSE]_<<work, ranking, profile, parser, match, config, naming>>
        => [PartsNext]_partsVars /\ (work = "unwrapping")'
    BY DEF PartsNext, Unwrap, partsVars
  <2> QED BY <2>1, <2>2, PTL DEF ReplySpec, PartsSpec, partsVars
<1>7. NameSpec /\ OnlyWork("naming")
         /\ [][FALSE]_<<work, ranking, profile, parser, match, config, unwrapping>>
      => PartsSpec
  <2>1. NameInit /\ OnlyWork("naming") => PartsInit /\ work = "naming"
    BY DEF OnlyWork, PartsInit
  <2>2. work = "naming" /\ [NameNext]_naming
           /\ [FALSE]_<<work, ranking, profile, parser, match, config, unwrapping>>
        => [PartsNext]_partsVars /\ (work = "naming")'
    BY DEF PartsNext, ExtractName, partsVars
  <2> QED BY <2>1, <2>2, PTL DEF NameSpec, PartsSpec, partsVars
<1> QED BY <1>1, <1>2, <1>3, <1>4, <1>5, <1>6, <1>7

\* Every part keeps its type, whatever part runs.
THEOREM PartsTypes ==
    ASSUME Titles # {}, Scores # {}, Garbage # {}
    PROVE  PartsSpec => []PartsTypeOK
<1>1. PartsSpec => /\ []RankingTypeOK /\ []ProfileTypeOK /\ []ParserTypeOK
                   /\ []MatchTypeOK /\ []ConfigTypeOK /\ []ReplyTypeOK
                   /\ []NameTypeOK
  BY PartsRunAlone, RankingTypes, ProfileTypes, ParserTypes, MatchTypes,
     ConfigTypes, ReplyTypes, NameTypes
<1>2. RankingTypeOK /\ ProfileTypeOK /\ ParserTypeOK /\ MatchTypeOK /\ ConfigTypeOK
         /\ ReplyTypeOK /\ NameTypeOK => PartsTypeOK
  BY DEF PartsTypeOK
<1> QED BY <1>1, <1>2, PTL
=============================================================================
