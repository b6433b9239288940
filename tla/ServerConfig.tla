---------------------------- MODULE ServerConfig ----------------------------
(* The start of main: what the two .env files add to the environment, and the *)
(* port that comes of it.                                                    *)
EXTENDS Integers, Sequences

CONSTANTS
    Keys,       \* names of variables, "PORT" among them
    ValueTexts, \* what stands between quotes, or without any
    NoNumber,   \* stoi throws
    Number(_),  \* the number a text begins with, an int, or NoNumber
    MaxSettings \* bound: lines of both files together

ASSUME ConfigAssumption ==
    /\ \A t \in ValueTexts : Number(t) \in Int \cup {NoNumber}
    /\ NoNumber \notin Int /\ MaxSettings \in Nat
    /\ "PORT" \in Keys /\ "" \notin Keys

Quotes == {"", "single", "double"}

\* A value as it stands in a file, trimmed.
Values == [left : Quotes, text : ValueTexts, right : Quotes]
Plain(t) == [left |-> "", text |-> t, right |-> ""]

\* A line with a '=' after which a value stands; the key may be empty.
Pairs == [key : Keys \cup {""}, value : Values]

VARIABLES
    given,      \* the environment of the process
    env,        \* what getenv finds
    files,      \* .env and resume-frontend/.env: lines read so far
    at,         \* the file that is being read
    serving,    \* "loading", then "listening" or "exited"
    port        \* port_

config == <<given, env, files, at, serving, port>>

ConfigInit ==
    /\ given \in UNION {[ks -> {Plain(t) : t \in ValueTexts}] : ks \in SUBSET Keys}
    /\ env = given
    /\ files = <<<<>>, <<>>>> /\ at = 1
    /\ serving = "loading" /\ port = 0

----------------------------------------------------------------------------
(* loadDotEnv.                                                               *)

\* Equal quotes at both ends are taken off.
Unquoted(v) == IF v.left = v.right THEN Plain(v.text) ELSE v

\* Mutant: a look at the value instead of nullptr.
SetAndNotEmpty(k) == k \in DOMAIN env /\ env[k] # Plain("")

IsSet(k) == k \in DOMAIN env

\* One turn of the loop.  (Blank lines, comments and lines without a '=' change
\* nothing and are left out; a file that cannot be opened has no lines.)
ReadLine(line) ==
    /\ at <= 2 /\ Len(files[1]) + Len(files[2]) < MaxSettings
    /\ files' = [files EXCEPT ![at] = Append(@, line)]
    /\ env' = IF line.key = "" \/ IsSet(line.key) THEN env
              ELSE [k \in DOMAIN env \cup {line.key} |->
                      IF k = line.key THEN Unquoted(line.value) ELSE env[k]]
    /\ UNCHANGED <<given, at, serving, port>>

EndOfFile ==
    /\ at <= 2
    /\ at' = at + 1
    /\ UNCHANGED <<given, env, files, serving, port>>

----------------------------------------------------------------------------
(* The end of main.                                                          *)

\* stoi reads a number and looks at nothing behind it.
Stoi(v) == IF v.left = "" THEN Number(v.text) ELSE NoNumber

\* uint16_t.
Ports == 0..65535

\* Mutants: a port that is no uint16_t; a number too large is as good as none.
AsGiven(n) == n
Clamped(n) == IF n \in Ports THEN n ELSE 18080

\* port() takes a uint16_t.
Narrowed(n) == n % 65536

\* app.port(port).multithreaded().run(): when bind fails run() returns.
Listen(n) ==
    /\ port' = Narrowed(n)
    /\ serving' \in {"listening", "exited"}

Start ==
    /\ at = 3 /\ serving = "loading"
    /\ \/ ~("PORT" \in DOMAIN env) /\ Listen(18080)
       \/ /\ "PORT" \in DOMAIN env /\ Stoi(env["PORT"]) # NoNumber
          /\ Listen(Stoi(env["PORT"]))
       \/ /\ "PORT" \in DOMAIN env /\ Stoi(env["PORT"]) = NoNumber
          /\ serving' = "exited" /\ UNCHANGED port
    /\ UNCHANGED <<given, env, files, at>>

ConfigNext == (\E line \in Pairs : ReadLine(line)) \/ EndOfFile \/ Start

ConfigSpec == ConfigInit /\ [][ConfigNext]_config

----------------------------------------------------------------------------
(* Properties.                                                               *)

SettingLines == files[1] \o files[2]

\* The lines that give k a value.
Settings(k) == {i \in DOMAIN SettingLines : SettingLines[i].key = k}

\* Type invariant of the start.
ConfigTypeOK ==
    /\ \A k \in DOMAIN env : k \in Keys /\ env[k] \in Values
    /\ files \in [1..2 -> Seq(Pairs)] /\ at \in 1..3
    /\ serving \in {"loading", "listening", "exited"} /\ port \in Ports

\* A variable has the value of the process, even an empty one; else that of the
\* first line that gives it one, .env before resume-frontend/.env, without its
\* quotes; a later line or file never replaces it.
FirstSettingWins ==
    \A k \in Keys :
        /\ k \in DOMAIN env <=> k \in DOMAIN given \/ Settings(k) # {}
        /\ k \in DOMAIN given => env[k] = given[k]
        /\ k \in DOMAIN env \ DOMAIN given => \E i \in Settings(k) :
             LET v == SettingLines[i].value
             IN  /\ \A j \in Settings(k) : i <= j
                 /\ env[k].text = v.text /\ (env[k] = v \/ v.left = v.right)
                 /\ env[k].left # "" => env[k].left # env[k].right

\* The port of the settings: 18080 without PORT, else the number PORT begins with.
PortOfSettings(p) ==
    IF Settings("PORT") = {} /\ "PORT" \notin DOMAIN given THEN p = 18080
    ELSE LET n == Number(env["PORT"].text)
         IN  n # NoNumber /\ (n - p) % 65536 = 0 /\ (n \in Ports => p = n)

\* The server listens where PORT says, or nowhere; a number that is no port is
\* not refused but taken modulo 2^16.
\* For port 0 the system then picks a free port, which is not looked at here.
ListensWherePortSays == serving = "listening" => PortOfSettings(port)
=============================================================================
