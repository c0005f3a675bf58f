----------------------------- MODULE RequestData ---------------------------
(***************************************************************************)
(* What an app sees of a request: the environment and the POST data that   *)
(* the two request handlers in src/src/RequestHandler/impl/ hand to        *)
(* Request, Env, GPC, Post and File (src/src/request/).                    *)
(*                                                                         *)
(* Names are shortened: RU for REQUEST_URI, CT for CONTENT_TYPE, ct for    *)
(* content-type, CL and cl likewise for the length, Host for host, H_ for  *)
(* the HTTP_ of a CGI variable.                                            *)
(* http:// and https:// are one character.                                 *)
(***************************************************************************)
EXTENDS Mime

CL == <<67, 76>>
RU == <<82, 85>>
BASE_URL == <<66, 85>>
FULL_URL_WITH_QS == <<70, 81>>
FULL_URL_WITHOUT_QS == <<70, 85>>
HTTPS == <<83>>
HTTP_ == <<72, 95>>
Host == <<104>>
ContentType == toLowercase(CT)
UrlEncoded == <<117>>
MultipartForm == <<109>>
TextPlain == <<116, 112>>

\* environment[key], which has no value unless it was set
EnvValue(env, key) == IF key \in DOMAIN env THEN env[key] ELSE <<>>

Put(env, key, value) == [k \in DOMAIN env \cup {key} |-> IF k = key THEN value ELSE env[k]]

\* BASE_URL and the full URL with and without the query string
Urls(scheme, host, uri) ==
    LET base == <<scheme>> \o host
    IN [k \in {BASE_URL, FULL_URL_WITH_QS, FULL_URL_WITHOUT_QS} |->
            CASE k = BASE_URL -> base
              [] k = FULL_URL_WITH_QS -> base \o uri
              [] k = FULL_URL_WITHOUT_QS -> base \o Before(uri, FindChar(uri, Question))]

-----------------------------------------------------------------------------
(* The HTTP request handler *)

\* Of headers with the same name the first counts.
AddHeader(env, header) ==
    IF toLowercase(header[1]) \in DOMAIN env THEN env ELSE Put(env, toLowercase(header[1]), header[2])

HttpEnvironment(request) ==
    LET env == FoldLeft(AddHeader, [k \in {RU} |-> request.destination], request.headers)
        urls == Urls(104, EnvValue(env, Host), request.destination)
    IN [k \in DOMAIN env \cup DOMAIN urls |-> IF k \in DOMAIN urls THEN urls[k] ELSE env[k]]

HttpGetVars(request) ==
    IF FindChar(request.destination, Question) = 0 THEN <<>>
    ELSE splitQueryString(request.destination)

IsFile_Named(part) == part.filename # <<>>

IsFile(part) ==
    part.filename # <<>> \/ (part.contentType # <<>> /\ ~IsPrefix(TextPlain, part.contentType))

\* File: name, type and a copy of the data
File(part) == [filename |-> part.filename, contentType |-> part.contentType, data |-> part.content]

\* The files among the parts, or the others, under their names
Chosen(parts, files) ==
    LET s == SelectSeq(parts, LAMBDA p : IsFile(p) = files)
    IN [i \in 1..Len(s) |-> <<s[i].partName, IF files THEN File(s[i]) ELSE s[i].content>>]

\* rawPost is <<>> if there is none, <<body>> otherwise.  A multipart body
\* that does not parse leaves nothing.
PostData(contentType, body, access) ==
    LET type == toLowercase(contentType)
        form == type = UrlEncoded
        multipart == ~form /\ IsPrefix(MultipartForm, type)
        postWith(parts) ==
            [rawPost |-> IF access = "always" \/ (access = "nonstandard" /\ ~form /\ ~multipart) THEN <<body>> ELSE <<>>,
             postContentType |-> IF form THEN type ELSE <<>>,
             postVars |-> IF form THEN splitQueryString(body) ELSE Chosen(parts, FALSE),
             postFiles |-> Chosen(parts, TRUE)]
    IN postWith(IF multipart THEN parse(contentType, body).parts ELSE <<>>)

-----------------------------------------------------------------------------
(* The FastCGI request handler *)


EnvKey(k) == IF IsPrefix(HTTP_, k) THEN replace_all(toLowercase(From(k, 3)), <<95>>, <<Dash>>) ELSE k

FastcgiEnvironment(parameters) ==
    LET param(k) == IF k \in DOMAIN parameters THEN parameters[k] ELSE <<>>
        urls == Urls(IF HTTPS \in DOMAIN parameters THEN 115 ELSE 104, param(HTTP_ \o toUppercase(Host)), param(RU))
        fixed == Put(urls, ContentType, param(CT))
        keys == {EnvKey(k) : k \in DOMAIN parameters}
    IN [k \in DOMAIN fixed \cup keys |->
            IF k \in DOMAIN fixed THEN fixed[k]
            ELSE parameters[CHOOSE p \in DOMAIN parameters : EnvKey(p) = k]]

\* inProcessor: whether the raw POST data is kept
RawKept(contentType, access) ==
    /\ contentType # <<>> /\ access # "never"
    /\ access = "always" \/ contentType \notin {MultipartForm, UrlEncoded}

-----------------------------------------------------------------------------
(* The accessors of the app *)

\* The variables are in an unordered_multimap, which keeps those with the same
\* name in an order of its own.
Values(vars, name) ==
    LET s == SelectSeq(vars, LAMBDA v : v[1] = name)
    IN [i \in 1..Len(s) |-> s[i][2]]

\* GPC::operator[] returns one of these, getVector and count all; likewise
\* getFile, getFileVector and countFiles of Post.
Lookup(vars, name) == IF Values(vars, name) = <<>> THEN {<<>>} ELSE ToSet(Values(vars, name))

getVector(vars, name) == ToBag(Values(vars, name))

count(vars, name) == Len(Values(vars, name))

\* Post::operator bool and hasFiles
PostGiven(post) == post.postVars # <<>> \/ post.postFiles # <<>>

hasFiles(post) == post.postFiles # <<>>

getRequestPath(env) == splitPath(EnvValue(env, RU))
=============================================================================
