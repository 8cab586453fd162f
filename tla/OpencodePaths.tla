---------------------------- MODULE OpencodePaths ----------------------------
(***************************************************************************)
(* How opencode, which knows only the root of its origin, is served under  *)
(* /w/<id>/ (apps/web/lib/workspace-proxy.ts): the proxy strips the prefix *)
(* from requests, rewrites the document's own attributes and patches the   *)
(* one place where the router reads the address; a script put into the     *)
(* document rebases what the page requests and writes to the address bar   *)
(* at run time.  A path is a sequence of segments.                         *)
(***************************************************************************)
EXTENDS Naturals, Sequences, SequencesExt

CONSTANTS
  Seg,          \* path segments, "w" and this workspace's id among them
  Id,           \* this workspace's id
  MaxPath,      \* bound on the length of the paths opencode uses
  MaxEntries    \* bound on the tab's session history

ASSUME PathAssumption ==
  {"w", Id} \subseteq Seg /\ MaxPath \in Nat /\ MaxEntries \in Nat \ {0}

Base == <<"w", Id>>
Under(p) == IsPrefix(Base, p)
WithBase(p) == Base \o p
WithoutBase(p) == SubSeq(p, Len(Base) + 1, Len(p))

\* The paths opencode means: its router and its server have none under Base.
Own == {p \in UNION {[1..n -> Seg] : n \in 0..MaxPath} : ~Under(p)}

VARIABLES
  doc,        \* the document in the tab
  entries,    \* the tab's history: the address, and the route opencode means by it
  pos,        \* the current entry
  sent,       \* the last request of the page: what it meant, where it arrived
  term        \* the terminal overlay of this document

pathVars == <<doc, entries, pos, sent, term>>

\* What the proxy puts into the document: a link home, the terminal's overlay
\* and the script.
Parts == {"home", "overlay", "shim"}

NoTerm == [shown |-> FALSE, connected |-> FALSE]
NoRequest == [meant |-> <<>>, reached |-> <<>>]
\* The directives of the policy opencode ships that bear on what is put into its
\* document (one with default-src alone, which blocks it as well, is not among them).
Csp == SUBSET {"script-src", "script-src-elem", "frame-src"}

NoDoc == [at |-> "none", parts |-> {}, route |-> <<>>]

PathInit ==
  /\ doc = NoDoc
  /\ entries = <<[addr |-> Base, meant |-> <<>>]>>
  /\ pos = 1
  /\ sent = NoRequest
  /\ term = NoTerm

-----------------------------------------------------------------------------
\* The proxy.

\* workspaceProxyRequestPath: what opencode's server is asked for (the portal's
\* own routes answer what is not under the prefix).
RequestPath(p) == IF Under(p) THEN WithoutBase(p) ELSE <<"portal">>

\* rewriteOpencodeResponseBody on the document's src, href and content values.
StartsWithW(p) == Len(p) > 0 /\ Head(p) = "w"
RewriteAttribute(p) == IF StartsWithW(p) THEN p ELSE WithBase(p)

\* cspAllowingInlineScript: the script's hash joins the directives that are there.
CspAllowingInlineScript(csp) ==
  IF csp \cap {"script-src", "script-src-elem"} # {} THEN csp \cup {"hash"} ELSE csp

\* cspAllowingSelfFrame: an existing frame-src also takes the overlay's frame.
CspAllowingSelfFrame(csp) == IF "frame-src" \in csp THEN csp \cup {"self"} ELSE csp

\* The parts that work under a policy: an inline script no script directive speaks
\* against, a frame no frame directive does.
Runs(csp) ==
  {x \in Parts : /\ x = "shim" => csp \cap {"script-src", "script-src-elem"} = {}
                                 \/ "hash" \in csp
                /\ x = "overlay" => "frame-src" \notin csp \/ "self" \in csp}

\* An HTML text: the tags that injections anchor on, and the parts put in.  One
\* without the tag is refused, and a part that is there is not put in again.
Inject(html, tag, x) ==
  IF tag \in html.tags THEN [html EXCEPT !.parts = @ \cup {x}] ELSE [tags |-> {}, parts |-> {}]

InjectWorkspaceHomeLink(html) == Inject(html, "body", "home")
InjectOpencodeTerminalOverlay(html) == Inject(html, "body", "overlay")
InjectOpencodeBasePathShim(html) == Inject(html, "head", "shim")

\* The document: link, overlay and script put in, and a policy that lets them
\* work; 502 when one of them finds no place.
LoadDocument(tags, csp) ==
  LET page == InjectOpencodeBasePathShim(InjectOpencodeTerminalOverlay(
                InjectWorkspaceHomeLink([tags |-> tags, parts |-> {}])))
      policy == CspAllowingSelfFrame(CspAllowingInlineScript(csp)) IN
  /\ doc.at = "none"
  /\ doc' = IF page.parts = {} THEN [NoDoc EXCEPT !.at = "failed"]
            ELSE [NoDoc EXCEPT !.at = "document", !.parts = page.parts \cap Runs(policy)]
  /\ UNCHANGED <<entries, pos, sent, term>>

\* A static asset of the document.
LoadAsset(p) ==
  /\ doc.at \in {"document", "running"}
  /\ ~StartsWithW(p)
  /\ sent' = [meant |-> p, reached |-> RequestPath(RewriteAttribute(p))]
  /\ UNCHANGED <<doc, entries, pos, term>>

\* Strip (window.__eddStrip) as the patched router reads the address.
Strip(p) == IF Under(p) THEN WithoutBase(p) ELSE p

\* The bundle with the router: patched, or refused when the anchor has changed.
LoadBundle ==
  /\ doc.at = "document" /\ "shim" \in doc.parts
  /\ doc' = [doc EXCEPT !.at = "running", !.route = Strip(entries[pos].addr)]
  /\ UNCHANGED <<entries, pos, sent, term>>

BundleRefused ==
  /\ doc.at = "document"
  /\ doc' = [doc EXCEPT !.at = "failed"]
  /\ UNCHANGED <<entries, pos, sent, term>>

-----------------------------------------------------------------------------
\* The page.

\* Mutant: the base is added to whatever is written.
AddBaseAlways(p) == WithBase(p)
\* __eddAddBase: unless the address already has it.
AddBase(p) == IF Under(p) THEN p ELSE WithBase(p)

\* The app navigates: a route of its own.
PushState(p) ==
  /\ doc.at = "running" /\ pos < MaxEntries
  /\ entries' = Append(SubSeq(entries, 1, pos), [addr |-> AddBase(p), meant |-> p])
  /\ pos' = pos + 1
  /\ doc' = [doc EXCEPT !.route = p]
  /\ UNCHANGED <<sent, term>>

\* The app rewrites the current entry: to a route, or to the address it reads from
\* the location itself.
ReplaceState(p) ==
  /\ doc.at = "running"
  /\ entries' = [entries EXCEPT ![pos] = [addr |-> AddBase(p), meant |-> Strip(p)]]
  /\ doc' = [doc EXCEPT !.route = Strip(p)]
  /\ UNCHANGED <<pos, sent, term>>

\* Back and forward: the router reads the address.
Traverse(i) ==
  /\ doc.at = "running" /\ i \in DOMAIN entries /\ i # pos
  /\ pos' = i
  /\ doc' = [doc EXCEPT !.route = Strip(entries[i].addr)]
  /\ UNCHANGED <<entries, sent, term>>

\* A reload, or a document that failed tried again: the address is loaded anew.
Reload ==
  /\ doc.at \in {"document", "running", "failed"}
  /\ doc' = [NoDoc EXCEPT !.at = IF Under(entries[pos].addr) THEN "none" ELSE "left"]
  /\ term' = NoTerm
  /\ UNCHANGED <<entries, pos, sent>>

\* rebase, around fetch, XMLHttpRequest, WebSocket, EventSource and Worker.
Rebase(p) == IF Under(p) THEN p ELSE WithBase(p)

Request(p) ==
  /\ doc.at = "running"
  /\ sent' = [meant |-> Strip(p), reached |-> RequestPath(Rebase(p))]
  /\ UNCHANGED <<doc, entries, pos, term>>

\* The home link leaves the app by a real navigation, past its router.
ClickHome ==
  /\ doc.at \in {"document", "running"} /\ {"home", "shim"} \subseteq doc.parts
  /\ doc' = [NoDoc EXCEPT !.at = "left"]
  /\ term' = NoTerm
  /\ UNCHANGED <<entries, pos, sent>>

\* __eddTermSet: the frame connects when it is first shown, and stays when hidden.
ToggleTerminal ==
  /\ doc.at \in {"document", "running"} /\ {"overlay", "shim"} \subseteq doc.parts
  /\ term' = [shown |-> ~term.shown, connected |-> term.connected \/ ~term.shown]
  /\ UNCHANGED <<doc, entries, pos, sent>>

PathNext ==
  \/ \E tags \in SUBSET {"head", "body"}, csp \in Csp : LoadDocument(tags, csp)
  \/ LoadBundle \/ BundleRefused \/ Reload \/ ClickHome \/ ToggleTerminal
  \/ \E p \in Own : LoadAsset(p) \/ PushState(p)
  \/ \E p \in Own \cup {entries[pos].addr} : ReplaceState(p) \/ Request(p)
  \/ \E i \in 1..MaxEntries : Traverse(i)

PathSpec == PathInit /\ [][PathNext]_pathVars

-----------------------------------------------------------------------------
\* In any order of navigating, rewriting the current entry, going back and
\* forward, and reloading: opencode shows the route it meant, every address it
\* left in the history reloads into this workspace, every request reaches the
\* path of its own server that it meant, and the script they all rest on has run,
\* beside the link and the overlay it serves (the base-path shim,
\* workspaceProxyRequestPath, patchOpencodeRouterBase).
RoutesRoundTrip ==
  /\ doc.at = "running" => doc.route = entries[pos].meant
  /\ doc.at # "left" => \A i \in DOMAIN entries :
       Under(entries[i].addr) /\ Strip(entries[i].addr) = entries[i].meant
  /\ sent.reached = sent.meant
  /\ doc.at \in {"document", "running"} => doc.parts = Parts
=============================================================================
