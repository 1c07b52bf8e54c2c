------------------------------- MODULE MCBoot -------------------------------
(* Small instances of Boot: one account name for the resolvers to range over, *)
(* and environments that differ from a good one in the variables that matter. *)
EXTENDS Boot, TLC

CONSTANT u1

Good ==
  "SERVICE_NAME" :> "api" @@ "NODE_ENV" :> "PRODUCTION" @@ "APP_MODE" :> "API"
    @@ "PORT" :> 3000 @@ "API_PREFIX" :> "v1" @@ "DB_URL" :> "postgres"
    @@ "DB_SSL_ENABLE" :> "false" @@ "DB_RUN_MIGRATIONS" :> "true"
    @@ "DB_RETRY_DELAY" :> 0 @@ "DB_RETRY_ATTEMPTS" :> 2
    @@ "AUTH_ACCESS_PRIVATE_KEY" :> "key" @@ "AUTH_ACCESS_PUBLIC_KEY" :> "key"
    @@ "AUTH_ACCESS_EXPIRE" :> 1000

With(changes) == changes @@ Good

MCEnvironments ==
  {Good,
   With("DB_RUN_MIGRATIONS" :> "false" @@ "DB_RETRY_ATTEMPTS" :> 1),
   With("APP_MODE" :> "CRON" @@ "PORT" :> Missing @@ "API_PREFIX" :> Blank),
   With("PORT" :> Missing),
   With("DB_URL" :> Missing), With("DB_URL" :> Blank),
   With("DB_RETRY_ATTEMPTS" :> 0), With("DB_RETRY_ATTEMPTS" :> Missing),
   With("DB_RETRY_ATTEMPTS" :> Invalid),
   With("DB_RETRY_ATTEMPTS" :> Blank), With("DB_RETRY_DELAY" :> Blank),
   With("DB_RUN_MIGRATIONS" :> Missing),
   (* as the image of the Dockerfile sets it *)
   With("NODE_ENV" :> "production")}
=============================================================================
