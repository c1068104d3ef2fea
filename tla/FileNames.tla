------------------------------ MODULE FileNames ------------------------------
(***************************************************************************)
(* What becomes of a file's name: filename.c makes it one that Windows     *)
(* takes for an ordinary file, win32_file_sink.c checks that again and     *)
(* puts the paths of the staging and the final file together.              *)
(*                                                                         *)
(* A name is a sequence of bytes.  The code looks at classes of bytes, so  *)
(* an instance has a few of each: forbidden ones (control characters,      *)
(* separators, wildcards...), the letters of the device names in both      *)
(* cases, digits, bytes of a multi-byte character and others.              *)
(***************************************************************************)
EXTENDS Naturals, SequencesExt

CONSTANTS
    Forbidden,       \* pd_ascii_is_control or pd_is_windows_forbidden
    Dot, Space, Underscore, Backslash, Slash,
    Upper,           \* pd_ascii_upper, as a function on bytes
    Device,          \* CON, PRN, AUX, NUL
    NumberedDevice,  \* COM, LPT
    Digit1to9,
    Lead, Continuation,   \* the first and the second byte of a two-byte character
    Fallback,        \* "file"
    PartSuffix,      \* ".part"
    HexDigit,        \* of a job id
    JobIdChars,      \* PD_JOB_ID_HEX_CHARS
    PathCapacity,    \* PD_WIN32_PATH_CAPACITY, with the NUL
    FilenameMax,     \* PD_FILENAME_MAX_BYTES
    Wide(_),         \* MultiByteToWideChar of a valid name
    None

\* The text before the first dot.
Stem(name) == LET dot == SelectInSeq(name, LAMBDA b : b = Dot)
              IN  IF dot = 0 THEN name ELSE SubSeq(name, 1, dot - 1)

UpperCase(name) == [i \in DOMAIN name |-> Upper[name[i]]]

\* Mutated form: the whole name is compared, whatever follows the first dot.
ReservedWhole(name) ==
    \/ UpperCase(name) \in Device
    \/ name # <<>> /\ UpperCase(Front(name)) \in NumberedDevice /\ Last(name) \in Digit1to9

\* pd_is_windows_reserved_device_name
Reserved(name) ==
    LET stem == Stem(name)
    IN  \/ UpperCase(stem) \in Device
        \/ stem # <<>> /\ UpperCase(Front(stem)) \in NumberedDevice /\ Last(stem) \in Digit1to9

\* Every byte that Windows forbids becomes an underscore.
Replaced(name) ==
    [i \in DOMAIN name |-> IF name[i] \in Forbidden THEN Underscore ELSE name[i]]

\* The name without the dots and spaces at its end.
TrimEnd(name) ==
    SubSeq(name, 1, Min({k \in 0 .. Len(name) :
                            \A i \in k + 1 .. Len(name) : name[i] \in {Dot, Space}}))

\* Mutated form: a name is cut to make room for the prefix.
SanitizeCut(name) ==
    LET trimmed == TrimEnd(Replaced(name))
        candidate == IF trimmed \in {<<>>, <<Dot>>, <<Dot, Dot>>} THEN Fallback ELSE trimmed
        prefix == IF Reserved(candidate) THEN <<Underscore>> ELSE <<>>
    IN  IF Len(name) > FilenameMax THEN None
        ELSE TrimEnd(SubSeq(prefix \o candidate, 1,
                            IF Len(prefix \o candidate) > FilenameMax THEN FilenameMax
                            ELSE Len(prefix \o candidate)))

\* pd_filename_sanitize, for an output buffer of PD_FILENAME_CAPACITY.
Sanitize(name) ==
    LET trimmed == TrimEnd(Replaced(name))
        candidate == IF trimmed \in {<<>>, <<Dot>>, <<Dot, Dot>>} THEN Fallback ELSE trimmed
        prefix == IF Reserved(candidate) THEN <<Underscore>> ELSE <<>>
    IN  IF Len(name) > FilenameMax \/ Len(candidate) > FilenameMax - Len(prefix)
        THEN None ELSE prefix \o candidate

-----------------------------------------------------------------------------
\* What MultiByteToWideChar takes with MB_ERR_INVALID_CHARS.
ValidUtf8(name) ==
    \A i \in DOMAIN name :
        /\ name[i] \in Lead => i < Len(name) /\ name[i + 1] \in Continuation
        /\ name[i] \in Continuation => i > 1 /\ name[i - 1] \in Lead

\* pd_job_id_create: <<>> when there is no entropy.
JobIdCreate == [1 .. JobIdChars -> HexDigit] \cup {<<>>}

JobIdValid(id) == Len(id) = JobIdChars /\ ToSet(id) \subseteq HexDigit

\* What ends a path that needs no further separator.
Separator == {Backslash, Slash}

\* Mutated form: a path that fills the buffer is refused.
AppendComponentEarly(path, component) ==
    LET separator == IF Last(path) \in Separator THEN <<>> ELSE <<Backslash>>
        extended == path \o separator \o component
    IN  IF Len(extended) + 1 >= PathCapacity THEN None ELSE extended

\* pd_win32_append_component
AppendComponent(path, component) ==
    LET separator == IF Last(path) \in Separator THEN <<>> ELSE <<Backslash>>
        extended == path \o separator \o component
    IN  IF Len(extended) + 1 > PathCapacity THEN None ELSE extended

\* pd_win32_file_sink_init up to pd_win32_ensure_directory.
SinkInit(root, job_id, name) ==
    LET job_directory == AppendComponent(root, job_id)
        final == AppendComponent(job_directory, Wide(name))
        staging == AppendComponent(job_directory, Wide(name) \o PartSuffix)
    IN  IF ~JobIdValid(job_id) THEN [result |-> "INVALID_JOB_ID"]
        ELSE IF Sanitize(name) # name THEN [result |-> "INVALID_FILENAME"]
        ELSE IF ~ValidUtf8(name) THEN [result |-> "INVALID_UTF8"]
        ELSE IF \/ Len(root) + 1 > PathCapacity \/ job_directory = None
                \/ final = None \/ staging = None
             THEN [result |-> "PATH_TOO_LONG"]
        ELSE [result |-> "OK", job_directory |-> job_directory, final |-> final,
              staging |-> staging]
=============================================================================
