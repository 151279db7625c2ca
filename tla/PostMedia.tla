----------------------------- MODULE PostMedia -----------------------------
(***************************************************************************)
(* The pictures and videos of one social post: what the extractor's output *)
(* lists (prism-video, gallery.rs) and the downloads added for those the   *)
(* user picks (prism-core, manager/capture.rs), as operators.              *)
(*                                                                         *)
(* A row of the output is a message of some type with an address, the      *)
(* extension and the file's id its metadata give ("" when there is none),  *)
(* and headers.  `medium` is what is behind the address.                   *)
(***************************************************************************)
EXTENDS Naturals, Sequences, SequencesExt, FiniteSets, FiniteSetsExt

CONSTANTS
  MaxItems,   \* MAX_ITEMS
  Visual      \* VISUAL_EXTENSIONS

File == 3   \* the type of a message that is a file

------------------------------------------------------------------------------
(* gallery.rs                                                               *)

\* The metadata's extension, else the address's: its name's, else its query's.
ExtensionFromUrl(u) == IF u.ext # "" THEN u.ext ELSE u.format
ExtensionOf(row) == IF row.ext # "" THEN row.ext ELSE ExtensionFromUrl(row.url)

IsMedium(row) == row.type = File /\ row.url.https /\ ExtensionOf(row) \in Visual

Twitter == {"pbs.twimg.com", "video.twimg.com"}
Allowed == {"accept", "accept-language", "origin", "referer", "user-agent"}
SafeHeaders(headers) == {h \in headers : h.name \in Allowed /\ h.oneLine}

\* normalize_media_url: a picture of X is asked for in its original size.
Normalized(row) ==
  IF row.url.host = "pbs.twimg.com" /\ row.url.id # ""
  THEN [row.url EXCEPT !.ext = "", !.size = "orig", !.format = ExtensionOf(row)] ELSE row.url

\* What tells two media apart: X's id, the site's, else the address without its query.
\* Mutant: the whole address.
KeyOf_Address(row) == <<"url", Normalized(row)>>
KeyOf(row) ==
  IF row.url.host \in Twitter /\ row.url.id # "" THEN <<"x-media", row.url.id>>
  ELSE IF row.fileId # "" THEN <<"file", row.fileId>>
  ELSE <<"url", row.url.host, row.url.id, row.url.ext>>

\* parse_media_entries: each once, in the order of the post, up to MaxItems.
Entry(row) == [key |-> KeyOf(row), url |-> Normalized(row), ext |-> ExtensionOf(row),
               headers |-> SafeHeaders(row.headers), medium |-> row.medium]
Entries(rows) ==
  FoldLeft(LAMBDA out, row :
             IF ~IsMedium(row) \/ Len(out) = MaxItems \/ \E i \in DOMAIN out : out[i].key = KeyOf(row)
             THEN out ELSE Append(out, Entry(row)),
           <<>>, rows)

\* extract_with_binary: the entries of the post's playlist, numbered.  No media is an error.
Numbered(rows) == [i \in DOMAIN Entries(rows) |-> [index |-> i, entry |-> Entries(rows)[i]]]

------------------------------------------------------------------------------
(* capture.rs                                                               *)

\* post_media_identity: the site, and the post's id in its address.
PostOf(page) == <<page.host, page.post>>

ItemHeaders == {"accept", "accept-language", "origin"}
\* post_media_item
Item(page, pick) ==
  [name |-> <<PostOf(page), pick.index, IF pick.entry.ext \in Visual THEN pick.entry.ext ELSE "bin">>,
   url |-> pick.entry.url, medium |-> pick.entry.medium,
   headers |-> {h \in pick.entry.headers : h.name \in ItemHeaders}]

\* create_unique_media_folder: the first name that is free.
\* Mutant: the folder of the name is used when it is there already.
FreeFolder_First(name, disk) == <<name, 1>>
FreeFolder(name, disk) ==
  <<name, CHOOSE n \in 1 .. Cardinality(disk) + 1 :
            <<name, n>> \notin disk /\ \A k \in 1 .. n - 1 : <<name, k>> \in disk>>

\* add_post_media: nothing when the selection is not one of 1 to MaxItems media with their
\* numbers; an address picked twice is one download; several share a new folder and a group.
Picked(picks) ==
  FoldLeft(LAMBDA out, p : IF \E i \in DOMAIN out : out[i].entry.url = p.entry.url THEN out ELSE Append(out, p),
           <<>>, picks)
Added(page, picks, disk, minute) ==
  IF Len(picks) \notin 1 .. MaxItems \/ \E i \in DOMAIN picks : picks[i].index \notin 1 .. MaxItems
  THEN [items |-> <<>>, folder |-> {}]
  ELSE [items |-> [i \in DOMAIN Picked(picks) |-> Item(page, Picked(picks)[i])],
        folder |-> IF Len(Picked(picks)) > 1 THEN {FreeFolder(<<PostOf(page), minute>>, disk)} ELSE {}]

------------------------------------------------------------------------------
\* Every picture and video of the post is listed, once, up to the limit, whatever sizes and
\* addresses the extractor names it by.
EachMediumListed(rows) ==
  LET listed == [i \in DOMAIN Entries(rows) |-> Entries(rows)[i].medium]
      media == {rows[i].medium : i \in {j \in DOMAIN rows : IsMedium(rows[j])}}
  IN /\ Cardinality(ToSet(listed)) = Len(listed)
     /\ IF Cardinality(media) <= MaxItems THEN ToSet(listed) = media ELSE Len(listed) = MaxItems

\* Each medium picked is one download; no two go to one file, and the folder made for them is
\* of no other selection, even of the same post a moment before.
EachPickHasItsFile(page, picks, disk, minute) ==
  LET added == Added(page, picks, disk, minute)
  IN /\ {added.items[i].medium : i \in DOMAIN added.items} = {picks[i].entry.medium : i \in DOMAIN picks}
     /\ \A i, j \in DOMAIN added.items : i # j => added.items[i].name # added.items[j].name
     /\ Len(added.items) > 1 => added.folder # {} /\ added.folder \cap disk = {}
=============================================================================
