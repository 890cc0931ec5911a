-------------------------- MODULE RequestCurlObject --------------------------
(***************************************************************************)
(* One RequestCurlObject: a libcurl easy handle that is kept between       *)
(* requests, so that every option set for one request is still set when    *)
(* the next one starts.  The module has no state of its own: it defines    *)
(* the values a handle takes and what setConnectData, sendRequest and      *)
(* getResponse do to them.  Transport holds the handles.                   *)
(*                                                                         *)
(* The options of a handle are the ones that decide what libcurl puts on   *)
(* the wire (Wire).  Its buffers are what the write callbacks have stored. *)
(***************************************************************************)
EXTENDS Naturals, Sequences

CONSTANTS Urls,     \* full URLs, path and database included
          Bodies,   \* non-empty payloads of requests
          Logins,   \* (user name, password) pairs
          NoLogin,  \* the empty user name and password of a new handle
          NoBody,   \* the payload of length 0
          Parts     \* fragments libcurl delivers a reply body in

ASSUME NoBodyAssumption == NoBody \notin Bodies
ASSUME PartsAssumption == Parts \in Nat \ {0}

Methods == {"GET", "POST"}
Customs == {"", "PUT", "DELETE", "HEAD", "PATCH", "OPTIONS"}
Verbs   == {"GET", "POST", "PUT", "DELETE", "HEAD", "PATCH", "OPTIONS"}
Headers == {"accept", "content-type"}

\* A body on the wire is a payload in one of the two encodings.
Encodings == {"none", "json", "vpack"}
Content   == [enc : Encodings, data : Bodies \cup {NoBody}]
NoContent == [enc |-> "none", data |-> NoBody]

\* What the callers of sendREQUEST build (createREQUEST, addVPack, meta.erase).
\* Every POST of the library carries a payload, no GET or HEAD does (COPYPOSTFIELDS
\* would turn a GET into a POST).
Request == {r \in [verb : Verbs \cup {"ILLEGAL"}, url : Urls, meta : SUBSET Headers,
                   body : Bodies \cup {NoBody}] :
              /\ r.verb = "POST" => r.body # NoBody
              /\ r.verb \in {"GET", "HEAD"} => r.body = NoBody}

Options == [method : Methods, nobody : BOOLEAN, custom : Customs, post : Content,
            headers : SUBSET Headers, url : Urls \cup {""},
            login : Logins \cup {NoLogin}]

NewOptions == [method |-> "GET", nobody |-> FALSE, custom |-> "", post |-> NoContent,
               headers |-> {}, url |-> "", login |-> NoLogin]

(* libcurl: what curl_easy_setopt stores, and what the stored options make *)
(* curl_easy_perform send.  HTTPGET and POST also switch NOBODY off, and   *)
(* COPYPOSTFIELDS also selects POST; nothing but another CUSTOMREQUEST     *)
(* removes a custom verb, and nothing removes the posted fields.           *)
SetHttpGet(o)       == [o EXCEPT !.method = "GET", !.nobody = FALSE]
SetPost(o)          == [o EXCEPT !.method = "POST", !.nobody = FALSE]
SetCustom(o, verb)  == [o EXCEPT !.custom = verb]
SetNoBody(o)        == [o EXCEPT !.nobody = TRUE]
SetPostFields(o, c) == [o EXCEPT !.post = c, !.method = "POST"]

Wire(o) ==
  [verb    |-> IF o.custom # "" THEN o.custom ELSE IF o.nobody THEN "HEAD" ELSE o.method,
   url     |-> o.url,
   headers |-> o.headers,
   content |-> IF o.method = "POST" /\ ~o.nobody THEN o.post ELSE NoContent,
   login   |-> o.login]

WireMessage == [verb : Verbs, url : Urls \cup {""}, headers : SUBSET Headers,
                content : Content, login : Logins \cup {NoLogin}]

setConnectData(o, login) == [o EXCEPT !.login = login]

\* The header list: in JSON mode the VelocyPack content type is left out.
headerList(r, json) == IF json THEN r.meta \ {"content-type"} ELSE r.meta

setVerb(o, verb) ==
  CASE verb = "POST" -> SetCustom(SetPost(o), "")
    [] verb = "GET"  -> SetCustom(o, "")
    [] verb = "HEAD" -> SetNoBody(SetCustom(o, "HEAD"))
    [] OTHER         -> SetCustom(o, verb)

content(r, json) ==
  IF r.body = NoBody THEN NoContent
  ELSE [enc |-> IF json THEN "json" ELSE "vpack", data |-> r.body]

setPayload(o, r, json) ==
  IF r.body = NoBody THEN o ELSE SetPostFields(o, content(r, json))

\* Mutant: without "clear last command" (CURLOPT_HTTPGET).
sendRequest_NoHttpGet(o, r, json) ==
  LET opened == [o EXCEPT !.headers = headerList(r, json), !.url = r.url]
  IN  setPayload(setVerb(opened, r.verb), r, json)

\* sendRequest up to curl_easy_perform, for a request whose verb is legal.
sendRequest(o, r, json) ==
  LET opened == [o EXCEPT !.headers = headerList(r, json), !.url = r.url]
  IN  setPayload(setVerb(SetHttpGet(opened), r.verb), r, json)

\* The reference: what a request says by itself, whatever was sent before it.
Expected(r, login, json) ==
  [verb |-> r.verb, url |-> r.url, headers |-> headerList(r, json),
   content |-> content(r, json), login |-> login]

(* The reply buffers: the status code libcurl reports (0 before a status   *)
(* line arrives), the content type among the header lines, and the body    *)
(* fragments in the order bodyCallback appended them.  A fragment carries  *)
(* the tag of the exchange whose reply it belongs to.                      *)
ContentTypes == {"none", "json", "vpack", "other"}
Fragment(Tags) == Tags \X (1 .. Parts)
Buffers(Tags) == [code : Nat, ctype : ContentTypes, body : Seq(Fragment(Tags))]
NoReply == [code |-> 0, ctype |-> "none", body |-> <<>>]

\* The first n fragments of the reply to the exchange `tag`.
ReplyBody(tag, n) == [i \in 1 .. n |-> <<tag, i>>]

receiveStatus(b, code, ctype) == [b EXCEPT !.code = code, !.ctype = ctype]
bodyCallback(b, fragment) == [b EXCEPT !.body = Append(@, fragment)]

(* getResponse.  Parser::fromJson throws on a JSON body that is not whole; *)
(* any other body is handed on as VelocyPack, and an empty one is labelled *)
(* VelocyPack.                                                             *)
ParserThrows(b) ==
  b.ctype = "json" /\ b.body # <<>> /\ b.body # ReplyBody(Head(b.body)[1], Parts)

getResponse(b) ==
  [b EXCEPT !.ctype = IF @ = "json" \/ b.body = <<>> THEN "vpack" ELSE @]

isContentTypeVPack(response) == response.ctype = "vpack" \/ response.body # <<>>
==============================================================================
