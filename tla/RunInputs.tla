----------------------------- MODULE RunInputs -----------------------------
(***************************************************************************)
(* The two namespaces a run's templates read, env and secrets, as          *)
(* commands/run/secrets.rs fills them from the process, the files and the  *)
(* flags, and the patterns the redactor makes of the secrets.  Names and   *)
(* values are members of small sets; a line of a file is what it parses to.*)
(***************************************************************************)
EXTENDS Naturals, Sequences, Functions

CONSTANTS Names,       \* names of variables
          Declarations \* what the pipeline, the process and the flags hold

\* A sequence, of whatever it holds.
IsList(s) == s \in Seq(Range(s))

\* A file is private (mode 0600) or not, and a sequence of lines; a line is
\* skipped, malformed, or a binding of a name.  in.process, in.inline and the
\* lines bind names to values; the empty value is "".
ASSUME InputsAreSequences ==
  \A in \in Declarations :
    /\ in.pass_env \cup in.secrets \subseteq Names
    /\ DOMAIN in.process \subseteq Names
    /\ IsList(in.inline)
    /\ \A files \in {in.env_files, in.secrets_files} :
         IsList(files) /\ \A f \in Range(files) : IsList(f.lines)

VARIABLES declared,    \* the declarations at hand
          phase,       \* start, then refused or resolved
          spaces       \* env and secrets

inputVars == <<declared, phase, spaces>>

InputsInit ==
  /\ declared \in Declarations
  /\ phase = "start"
  /\ spaces = [env |-> <<>>, secrets |-> <<>>]

-----------------------------------------------------------------------------
\* BTreeMap::insert.
Insert(map, k, v) == [n \in DOMAIN map \cup {k} |-> IF n = k THEN v ELSE map[n]]

\* parse_dotenv: nothing of a file that others may read, or with a line that
\* does not parse, is used.
FileParses(f) == f.private /\ \A i \in DOMAIN f.lines : f.lines[i].kind # "malformed"

Bindings(files) == {l \in UNION {Range(f.lines) : f \in Range(files)} : l.kind = "binding"}

\* The order of the checks and of the inserts decides, whatever is refused:
\* the first refusal ends the run before it began.
Refused(in) ==
  \/ \E f \in Range(in.env_files) \cup Range(in.secrets_files) : ~ FileParses(f)
  \/ \E b \in Bindings(in.secrets_files) : b.key \notin in.secrets
  \/ \E b \in Range(in.inline) : b.kind = "malformed" \/ b.key \in in.secrets

FromProcess(in, names) == Restrict(in.process, names \cap DOMAIN in.process)

\* Mutant: a binding of an env file goes to env, whatever its name.
SpaceUnclassified(in, source, key) == IF source = "secrets_file" THEN "secrets" ELSE "env"

\* Where a binding goes: one of an env file by its name.
Space(in, source, key) ==
  IF source = "secrets_file" \/ (source = "env_file" /\ key \in in.secrets) THEN "secrets" ELSE "env"

Bound(in, source, s, b) == [s EXCEPT ![Space(in, source, b.key)] = Insert(@, b.key, b.value)]

\* One pass over the lines of a file, or over the flags, and one over files.
AfterLines(in, source, s, lines) ==
  LET after[i \in 0 .. Len(lines)] ==
        IF i = 0 THEN s
        ELSE IF lines[i].kind = "binding" THEN Bound(in, source, after[i - 1], lines[i])
        ELSE after[i - 1]
  IN  after[Len(lines)]

AfterFiles(in, source, s, files) ==
  LET after[i \in 0 .. Len(files)] ==
        IF i = 0 THEN s ELSE AfterLines(in, source, after[i - 1], files[i].lines)
  IN  after[Len(files)]

\* resolve_inputs.
Resolution(in) ==
  LET process == [env |-> FromProcess(in, in.pass_env), secrets |-> FromProcess(in, in.secrets)]
      files   == AfterFiles(in, "env_file", process, in.env_files)
      sealed  == AfterFiles(in, "secrets_file", files, in.secrets_files)
  IN  AfterLines(in, "inline", sealed, in.inline)

Resolve ==
  /\ phase = "start"
  /\ IF Refused(declared) THEN phase' = "refused" /\ UNCHANGED spaces
                          ELSE phase' = "resolved" /\ spaces' = Resolution(declared)
  /\ UNCHANGED declared

\* Redactor::new: the values that are not empty, each in four encodings.
Patterns(secrets) ==
  (Range(secrets) \ {""}) \X {"plain", "base64", "base64url", "hex"}

-----------------------------------------------------------------------------
\* What the last, and what the first, of some sources gives, if one gives
\* anything: each gives a set of at most one value.
LastGiven(sources) ==
  UNION {sources[i] : i \in {m \in DOMAIN sources : \A j \in DOMAIN sources : j > m => sources[j] = {}}}

FirstGiven(sources) ==
  UNION {sources[i] : i \in {m \in DOMAIN sources : \A j \in DOMAIN sources : j < m => sources[j] = {}}}

\* The value the last of the lines, or of the files, that binds a name gives it.
LastOf(k, lines) ==
  LastGiven([i \in DOMAIN lines |->
    IF lines[i].kind = "binding" /\ lines[i].key = k THEN {lines[i].value} ELSE {}])

LastOfFiles(k, files) == LastGiven([i \in DOMAIN files |-> LastOf(k, files[i].lines)])

Value(map, k) == IF k \in DOMAIN map THEN {map[k]} ELSE {}

\* A name has the value of the source that goes before all others: for env
\* -e, then the env files, the later first, then the process for what pass_env
\* lists; for secrets the secrets files, the env files, the process.  What a
\* template can read under a name declared secret is masked wherever it is
\* said, but for a name pass_env lists too and a file gives another value.
InputsByPrecedence ==
  phase = "resolved" =>
    LET in == declared
        process(k, names) == Value(FromProcess(in, names), k)
    IN  \A k \in Names :
          /\ Value(spaces.env, k) =
               FirstGiven(<<LastOf(k, in.inline),
                            IF k \in in.secrets THEN {} ELSE LastOfFiles(k, in.env_files),
                            process(k, in.pass_env)>>)
          /\ Value(spaces.secrets, k) =
               FirstGiven(<<LastOfFiles(k, in.secrets_files),
                            IF k \in in.secrets THEN LastOfFiles(k, in.env_files) ELSE {},
                            process(k, in.secrets)>>)
          /\ k \in in.secrets =>
               \A v \in (Value(spaces.env, k) \cup Value(spaces.secrets, k)) \ {""} :
                 \/ <<v, "plain">> \in Patterns(spaces.secrets)
                 \/ k \in in.pass_env /\ Value(spaces.secrets, k) # process(k, {k})
=============================================================================
