------------------------------ MODULE Transfer ------------------------------
(***************************************************************************)
(* Notes as a directory of Markdown files: export, and import by folders,   *)
(* under one given tag, or under none.  An import is one transaction of the *)
(* store (bulk in NoteStore), so it is one step here; so is an export,      *)
(* which nobody writes to the store meanwhile.  A note's type is the text   *)
(* of its type line, <<>> the default type.                                 *)
(***************************************************************************)
EXTENDS NoteText

CONSTANTS
    SlugOf,    \* a tag spelled out when it is a project's, <<>> otherwise
    Libraries, \* stores to export from, sequences of notes
    Foreign,   \* sets of files of another origin
    Root,      \* the name of the directory
    Given      \* tags an import may be given

VARIABLES
    library,  \* the store that is exported
    files,    \* the files of the directory
    exported, \* "no", "all" or "flat"
    copy,     \* the store that is imported into
    source,   \* where an import takes the project from
    imports,  \* how many there were, of this directory
    first     \* copy after the first

transferVars == <<library, files, exported, copy, source, imports, first>>

Default == <<>>

-----------------------------------------------------------------------------
(* Export.                                                                 *)

IsFence(l) == TrimEnd(l, {"sp"}) = <<"---">>

TypeLine(type) == <<"type:", "sp">> \o type
Fenced(b, type) == <<"---", "nl">> \o TypeLine(type) \o <<"nl", "---", "nl", "nl">> \o b

\* The lines of a closed fence, white space after the dashes allowed.
FenceLines(b) ==
    LET ls == Lines(b)
        ends == {j \in 2 .. Len(ls) : IsFence(ls[j])}
    IN  IF IsFence(ls[1]) /\ ends # {} THEN SubSeq(ls, 1, Least(ends)) ELSE <<>>
Declares(b) ==
    \E i \in DOMAIN FenceLines(b) :
        LET l == TrimStart(FenceLines(b)[i], {"sp"}) IN l # <<>> /\ Head(l) = "type:"

\* A variant for the checks: there is always a new fence.
PrependsFence(b, type) == Fenced(b, type)

\* The body with a type line in its fence, which is made when it has none.
WithFrontmatterType(b, type) ==
    IF FenceLines(b) = <<>> THEN Fenced(b, type)
    ELSE IF Declares(b) THEN b
    ELSE Join(InsertAt(Lines(b), 2, TypeLine(type)))

\* Read back: no white space before it, and the fence need not be closed.
FrontmatterType(b) ==
    LET ls == Lines(b)
        stop == Least({j \in 2 .. Len(ls) : IsFence(ls[j])} \cup {Len(ls) + 1})
        typed == {j \in 2 .. stop - 1 : ls[j] # <<>> /\ Head(ls[j]) = "type:"}
    IN  IF ~IsFence(ls[1]) \/ typed = {} THEN Default
        ELSE Trim(Tail(ls[Least(typed)]))

\* The folder of a project: what lies between the slashes of its slug.
SlugFolder(slug) ==
    LET some(c) == c # <<>> IN SelectSeq(Split(Tail(slug), "/"), some)

\* A note goes under the first project tag derived from it.
ProjectTags(b) == {i \in TagPositions(Rest(b)) : SlugOf[Rest(b)[i]] # <<>>}
Folder(b) ==
    IF ProjectTags(b) = {} THEN <<>> ELSE SlugFolder(SlugOf[Rest(b)[Least(ProjectTags(b))]])

\* The name ends in the note's id: i stands for it.
WriteNote(i, folder) ==
    LET n == library[i]
    IN  [folder |-> folder, name |-> i,
         text |-> IF n.type = Default THEN n.body ELSE WithFrontmatterType(n.body, n.type)]

ExportAll ==
    /\ exported = "no"
    /\ files' = files \cup {WriteNote(i, Folder(library[i].body)) :
                              i \in {j \in DOMAIN library : Folder(library[j].body) # <<>>}}
    /\ exported' = "all"
    /\ UNCHANGED <<library, copy, source, imports, first>>

\* One project, flat: the folder is the project.
ExportProject == \E tag \in TagTokens :
    /\ exported = "no" /\ SlugOf[tag] # <<>>
    /\ files' = files \cup {WriteNote(i, <<>>) :
                              i \in {j \in DOMAIN library : tag \in Derived(library[j].body).tags}}
    /\ exported' = "flat"
    /\ UNCHANGED <<library, copy, source, imports, first>>

-----------------------------------------------------------------------------
(* Import.                                                                 *)

\* Dot-directories are skipped.
CollectFiles == {f \in files : \A i \in DOMAIN f.folder : Head(f.folder[i]) # "."}

\* The project of a file's folder; a name that leaves no slug, or a slug with
\* an empty part, is an error.
SlugFor(f) == ToTag(IF f.folder = <<>> THEN Root ELSE Joined(f.folder, "/"))
NoProject(f) ==
    LET slug == SlugFor(f)
    IN  slug = <<>> \/ <<>> \in Range(Split(Tail(slug), "/"))
\* A folder is read from a file or made from a tag.  The project of each has its
\* tag, and a project's tag starts with the prefix.
Folders ==
    {<<>>} \cup {f.folder : f \in UNION Foreign}
      \cup {SlugFolder(SlugOf[t]) : t \in {u \in TagTokens : SlugOf[u] # <<>>}}

ASSUME TransferAssumption ==
    /\ SlugOf \in [TagTokens -> Seq(Kept \cup {"A", "_"})]
    /\ \A t \in TagTokens : SlugOf[t] # <<>> => Head(SlugOf[t]) = "P"
    /\ Given \subseteq TagTokens
    /\ Libraries \subseteq Seq([body : Seq(Tokens), type : Seq(Tokens)])
    /\ \A fs \in Foreign : IsFiniteSet(fs) /\ \A f \in fs : f.text \in Seq(Tokens)
    /\ \A folder \in Folders :
          LET f == [folder |-> folder]
          IN  NoProject(f) \/ \E t \in TagTokens : SlugOf[t] = SlugFor(f)

TagFor(f) == CHOOSE t \in TagTokens : SlugOf[t] = SlugFor(f)

\* The text a file is imported as: with the project's tag, if there is one.
Tagged(f, tags) ==
    IF tags = {} THEN f.text ELSE EnsureTag(f.text, CHOOSE t \in tags : TRUE)

\* A variant for the checks: what the file says is compared, not what is stored.
ComparesText(known, f, tags) == f.text \in known
IsDuplicate(known, f, tags) == Tagged(f, tags) \in known

\* The project of a file, or none.
ProjectOf(f) ==
    CASE source = "folders" -> {TagFor(f)}
      [] source = "none" -> {}
      [] OTHER -> {source}

Blank(f) == \A i \in DOMAIN f.text : f.text[i] \in White

\* What an import knows, with other texts for one project.
Noted(known, tags, texts) ==
    [t \in DOMAIN known \cup {tags} |-> IF t = tags THEN texts ELSE known[t]]

\* One file: what the store holds of its project is read once and kept up.
ImportFile(acc, f) ==
    LET tags == ProjectOf(f)
        new == Tagged(f, tags)
        held == {n \in Range(acc.notes) : tags \subseteq Derived(n.body).tags}
        known == IF tags \in DOMAIN acc.known THEN acc.known[tags]
                 ELSE {n.body : n \in held}
    IN  IF Blank(f) THEN acc
        ELSE IF IsDuplicate(known, f, tags)
             THEN [acc EXCEPT !.known = Noted(@, tags, known)]
        ELSE [notes |-> Append(acc.notes, [body |-> new, type |-> FrontmatterType(new)]),
              known |-> Noted(acc.known, tags, known \cup {new})]

\* One file after the other.
Imported(notes, fs) ==
    LET upTo[i \in 0 .. Len(fs)] ==
            IF i = 0 THEN [notes |-> notes, known |-> <<>>] ELSE ImportFile(upTo[i - 1], fs[i])
    IN  upTo[Len(fs)].notes

\* Nothing is imported when any folder is no project.
Import ==
    /\ exported # "no" /\ imports < 2
    /\ source = "folders" => \A f \in CollectFiles : ~NoProject(f)
    /\ copy' = Imported(copy, SetToSeq(CollectFiles))
    /\ imports' = imports + 1
    /\ first' = IF imports = 0 THEN copy' ELSE first
    /\ UNCHANGED <<library, files, exported, source>>

-----------------------------------------------------------------------------
TransferInit ==
    /\ library \in Libraries /\ files \in Foreign
    /\ exported = "no" /\ imports = 0 /\ first = <<>>
    /\ copy \in {<<>>, library}
    /\ source \in {"folders", "none"} \cup Given

TransferNext == ExportAll \/ ExportProject \/ Import

TransferSpec == TransferInit /\ [][TransferNext]_transferVars

-----------------------------------------------------------------------------
(* Exporting everything and importing it by folders gives every note of a   *)
(* project back: title, status, tags and the number of its todos, with the  *)
(* type its own fence declares or else the one it had.  When the tag of its *)
(* folder is the tag it went under and its type is the default, the body is *)
(* the same; otherwise no more than that tag is added.  A note that is in   *)
(* the store already may stay as it is.  Two texts are left out.  A fence    *)
(* with white space after its dashes is one here and none for status and    *)
(* title: a type line put into it, or the last dashes trimmed for a tag,    *)
(* change what these are.  And a tag in the frontmatter alone, or one that  *)
(* code begun there takes in, is found in the file and not in the note, or  *)
(* the other way round.                                                     *)
RoundTrip ==
    \A i \in DOMAIN library :
        LET old == library[i]
            folder == Folder(old.body)
            file == WriteNote(i, folder)
            tag == TagFor(file)
            type == IF old.type = Default \/ Declares(old.body)
                    THEN FrontmatterType(old.body) ELSE old.type
            plain == FrontmatterEnd(Lines(old.body)) = Len(FenceLines(old.body))
            seen == tag \in TagsOf(file.text)
            same(n) ==
                /\ n.type = type
                /\ Derived(n.body) = [Derived(old.body) EXCEPT !.tags = @ \cup {tag}]
                /\ Len(Todos(n.body)) = Len(Todos(old.body))
                /\ (old.type = Default /\ tag \in Derived(old.body).tags) => n.body = old.body
        IN  (/\ imports > 0 /\ exported = "all" /\ source = "folders" /\ folder # <<>>
             /\ plain \/ (old.type = Default /\ seen)
             /\ seen <=> tag \in Derived(old.body).tags)
                => \E n \in Range(first) : n = old \/ same(n)

(* Importing the same directory again adds nothing.  Directories are left    *)
(* out that have a text with a tag in its frontmatter alone: where that is   *)
(* the tag of its project, the text is not tagged on import, nor found among *)
(* the notes of the project, and comes again.                                *)
ReimportAddsNothing ==
    LET hides(f) == \E t \in TagsOf(f.text) : t \notin Derived(f.text).tags
    IN  imports = 2 /\ (\A f \in files : ~hides(f)) => copy = first
=============================================================================
