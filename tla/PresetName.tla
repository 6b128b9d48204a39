----------------------------- MODULE PresetName -----------------------------
(***************************************************************************)
(* Names of presets (preset_name.h).  A name is posted, becomes a file on  *)
(* a FAT card and is recovered from the listing of the directory; a name   *)
(* is a sequence of characters, of which one of each kind is kept.         *)
(***************************************************************************)
EXTENDS Naturals, Sequences, FiniteSets

CONSTANTS NameMax,   \* PresetNameMax
          Alphabet   \* bound: the characters names are tried with

ConstantsOK == NameMax \in Nat /\ Alphabet # {}

Allowed == {"a", "A", "0", " ", "_", "-", "."}   \* of letters, a small and its capital
Trailing == {".", " "}                             \* what a FAT card drops from the end of a name
Extension == <<".", "j", "s", "o", "n">>

\* presetNameValid()
Valid(name) ==
  /\ name # <<>> /\ Len(name) <= NameMax
  /\ \A i \in DOMAIN name : name[i] \in Allowed
  /\ name[1] \notin Trailing /\ name[Len(name)] \notin Trailing
  /\ \A i \in 2..Len(name) : ~(name[i - 1] = "." /\ name[i] = ".")

\* presetPath(), in /presets; presets.cpp adds ".tmp" for the file of a save under way
FileOf(name) == name \o Extension
TmpOf(name) == FileOf(name) \o <<".", "t", "m", "p">>

\* presetLower(), presetNamesEqualFold()
Lower(c) == CASE c = "A" -> "a" [] c = "J" -> "j" [] OTHER -> c
LowerCased(s) == [i \in DOMAIN s |-> Lower(s[i])]
EqualFold(s, t) == Len(s) = Len(t) /\ \A i \in DOMAIN s : Lower(s[i]) = Lower(t[i])

None == <<>>
\* presetNameFromFile(): the stem of a file that is a preset's, or no name.
NameFromFile(file) ==
  LET n == Len(file) - Len(Extension)
  IN IF n <= 0 \/ n > NameMax THEN None
     ELSE LET stem == SubSeq(file, 1, n)
          IN IF LowerCased(SubSeq(file, n + 1, Len(file))) = Extension /\ Valid(stem) THEN stem
             ELSE None
-----------------------------------------------------------------------------
\* The file a FAT card opens for a name: without regard to case, and without what trails.
CardFile(file) ==
  LET kept == {i \in DOMAIN file : \E j \in i..Len(file) : file[j] \notin Trailing}
  IN LowerCased(SubSeq(file, 1, Cardinality(kept)))

Names == UNION {[1..n -> Alphabet] : n \in 1..(NameMax + 1)}
Loud(file) == [i \in DOMAIN file |-> IF file[i] = "j" THEN "J" ELSE file[i]]

\* A name that is accepted is found again in the listing, in whatever case the card reports
\* the extension; two accepted names are one file exactly when they are equal without regard
\* to case, which is what PresetStore's names stand for; a file under way is nobody's preset;
\* and what the listing offers is accepted (preset_name.h 4-9, 45-52, 77-133).
NameIsItsFile(n) ==
  /\ Valid(n) =>
       /\ NameFromFile(FileOf(n)) = n
       /\ NameFromFile(Loud(FileOf(n))) = n
       /\ CardFile(FileOf(n)) = LowerCased(FileOf(n))
       /\ NameFromFile(TmpOf(n)) = None
       /\ \A m \in Names : Valid(m) =>
            /\ EqualFold(n, m) <=> CardFile(FileOf(n)) = CardFile(FileOf(m))
            /\ CardFile(TmpOf(n)) # CardFile(FileOf(m))
  /\ ~Valid(n) => NameFromFile(FileOf(n)) = None
=============================================================================
