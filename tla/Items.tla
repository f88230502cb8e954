------------------------------- MODULE Items ---------------------------------
(***************************************************************************)
(* What the code declares in long tables: the items of pkg/util/paramtable *)
(* (read by ParamTable) and the collectors of pkg/metrics (read by         *)
(* Metrics).                                                               *)
(***************************************************************************)
EXTENDS Sequences, FiniteSets

(***************************************************************************)
(* The parameter items: for each configuration, what its init puts into    *)
(* the ParamItem literals and a reader can tell apart.  A key is written   *)
(* the way config.formatKey leaves it (lower case, separators dropped),    *)
(* since that is what the manager compares.  Version, Doc and Export do    *)
(* not change what is read.  A formatter that computes is named only; what *)
(* those of the quota items compute is in ParamFormat.                     *)
(***************************************************************************)

\* A ParamItem with a key and a default value.
I(name, key, default) ==
    [owner |-> <<"", "">>, name |-> name, key |-> key, default |-> default, fallback |-> <<>>,
     format |-> "none", panicIfEmpty |-> FALSE]
\* ... with FallbackKeys, a Formatter, PanicIfEmpty.
Or(item, key) == [item EXCEPT !.fallback = Append(@, key)]
Via(item, formatter) == [item EXCEPT !.format = formatter]
Must(item) == [item EXCEPT !.panicIfEmpty = TRUE]
Of(owner, items) == {[item EXCEPT !.owner = owner] : item \in items}

commonConfig1 ==
    {Must(Or(I("ClusterPrefix", "msgchannelchannameprefixcluster", "by-dev"),
         "commonchannameprefixcluster")),
     Must(Via(Or(I("RootCoordTimeTick", "msgchannelchannameprefixrootcoordtimetick", ""),
         "commonchannameprefixrootcoordtimetick"), "prefix")),
     Must(Via(Or(I("RootCoordStatistics", "msgchannelchannameprefixrootcoordstatistics",
         ""), "commonchannameprefixrootcoordstatistics"), "prefix")),
     Must(Via(Or(I("RootCoordDml", "msgchannelchannameprefixrootcoorddml", ""),
         "commonchannameprefixrootcoorddml"), "prefix")),
     Must(Via(Or(I("ReplicateMsgChannel", "msgchannelchannameprefixreplicatemsg", ""),
         "commonchannameprefixreplicatemsg"), "prefix")),
     Must(Via(Or(I("QueryCoordTimeTick", "msgchannelchannameprefixquerytimetick", ""),
         "commonchannameprefixquerytimetick"), "prefix")),
     Must(Via(Or(I("DataCoordTimeTick", "msgchannelchannameprefixdatacoordtimetick", ""),
         "commonchannameprefixdatacoordtimetick"), "prefix")),
     Must(Via(Or(I("DataCoordSegmentInfo", "msgchannelchannameprefixdatacoordsegmentinfo",
         ""), "commonchannameprefixdatacoordsegmentinfo"), "prefix")),
     Must(Via(Or(I("DataCoordSubName", "msgchannelsubnameprefixdatacoordsubnameprefix",
         ""), "commonsubnameprefixdatacoordsubnameprefix"), "prefix")),
     Must(I("DataCoordWatchSubPath", "msgchannelsubnameprefixdatacoordwatchsubpath",
         "channelwatch")),
     Must(I("DataCoordTicklePath", "msgchannelsubnameprefixdatacoordwatchsubpath", "tickle")),
     Must(Via(Or(I("DataNodeSubName", "msgchannelsubnameprefixdatanodesubnameprefix", ""),
         "commonsubnameprefixdatanodesubnameprefix"), "prefix")),
     I("DefaultPartitionName", "commondefaultpartitionname", "_default"),
     I("DefaultIndexName", "commondefaultindexname", "_default_idx")}

commonConfig2 ==
    {Via(I("EntityExpirationTTL", "commonentityexpiration", "-1"), "number"),
     Or(I("SimdType", "commonsimdtype", "auto"), "knowheresimdtype"),
     I("IndexSliceSize", "commonindexslicesize", "16"),
     I("MaxDegree", "commondiskindexmaxdegree", "56"),
     I("SearchListSize", "commondiskindexsearchlistsize", "100"),
     I("PQCodeBudgetGBRatio", "commondiskindexpqcodebudgetgbratio", "0.125000"),
     I("BuildNumThreadsRatio", "commondiskindexbuildnumthreadsratio", "1"),
     I("SearchCacheBudgetGBRatio", "commondiskindexsearchcachebudgetgbratio", "0.100000"),
     I("LoadNumThreadRatio", "commondiskindexloadnumthreadratio", "8"),
     I("BeamWidthRatio", "commondiskindexbeamwidthratio", "4"),
     I("ConsistencyLevelUsedInDelete", "commonconsistencylevelusedindelete", "Bounded"),
     I("GracefulTime", "commongracefultime", "5000"),
     I("GracefulStopTimeout", "commongracefulstoptimeout", "1800"),
     I("StorageType", "commonstoragetype", "remote"),
     I("HighPriorityThreadCoreCoefficient", "commonthreadcorecoefficienthighpriority", "10"),
     I("MiddlePriorityThreadCoreCoefficient", "commonthreadcorecoefficientmiddlepriority", "5")}

commonConfig3 ==
    {I("LowPriorityThreadCoreCoefficient", "commonthreadcorecoefficientlowpriority", "1"),
     I("AuthorizationEnabled", "commonsecurityauthorizationenabled", "false"),
     I("SuperUsers", "commonsecuritysuperusers", ""),
     I("ClusterName", "commonclustername", ""),
     I("SessionTTL", "commonsessionttl", "60"),
     I("SessionRetryTimes", "commonsessionretrytimes", "30"),
     I("PreCreatedTopicEnabled", "commonprecreatedtopicenabled", "false"),
     I("TopicNames", "commonprecreatedtopicnames", ""),
     I("TimeTicker", "commonprecreatedtopictimeticker", ""),
     I("JSONMaxLength", "commonjsonmaxlength", "65536"),
     I("ImportMaxFileSize", "commonimportmaxfilesize", "17179869184"),
     I("MetricsPort", "commonmetricsport", "9091"),
     I("EnableLockMetrics", "commonlocksmetricsenable", "false"),
     I("LockSlowLogInfoThreshold", "commonlocksthresholdinfo", "500"),
     I("LockSlowLogWarnThreshold", "commonlocksthresholdwarn", "1000"),
     I("TTMsgEnabled", "commonttmsgenabled", "true"),
     I("TraceLogMode", "commontracelogmode", "0"),
     I("BloomFilterSize", "commonbloomfiltersize", "100000")}

commonConfig4 ==
    {I("MaxBloomFalsePositive", "commonmaxbloomfalsepositive", "0.05"),
     I("BloomFilterApplyBatchSize", "commonbloomfilterapplybatchsize", "1000")}

traceConfig ==
    {I("Exporter", "traceexporter", ""),
     I("SampleFraction", "tracesamplefraction", "0"),
     I("JaegerURL", "tracejaegerurl", ""),
     I("OtlpEndpoint", "traceotlpendpoint", ""),
     I("OtlpSecure", "traceotlpsecure", "true")}

logConfig ==
    {I("Level", "loglevel", "info"),
     I("RootPath", "logfilerootpath", ""),
     I("MaxSize", "logfilemaxsize", "300"),
     I("MaxAge", "logfilemaxage", "10"),
     I("MaxBackups", "logfilemaxbackups", "20"),
     I("Format", "logformat", "text"),
     I("Stdout", "logstdout", "true"),
     I("GrpcLogLevel", "grpcloglevel", "WARNING")}

rootCoordConfig ==
    {I("DmlChannelNum", "rootcoorddmlchannelnum", "16"),
     I("MaxPartitionNum", "rootcoordmaxpartitionnum", "4096"),
     I("MinSegmentSizeToEnableIndex", "rootcoordminsegmentsizetoenableindex", "1024"),
     I("ImportTaskExpiration", "rootcoordimporttaskexpiration", "900"),
     I("ImportTaskRetention", "rootcoordimporttaskretention", "86400"),
     I("ImportTaskSubPath", "rootcoordimporttasksubpath", "importtask"),
     I("ImportMaxPendingTaskCount", "rootcoordimportmaxpendingtaskcount", "65535"),
     I("EnableActiveStandby", "rootcoordenableactivestandby", "false"),
     I("MaxDatabaseNum", "rootcoordmaxdatabasenum", "64"),
     Via(I("MaxGeneralCapacity", "rootcoordmaxgeneralcapacity", "65536"), "number"),
     I("GracefulStopTimeout", "rootcoordgracefulstoptimeout", "5")}

proxyConfig1 ==
    {Must(I("TimeTickInterval", "proxytimetickinterval", "200")),
     Must(Or(I("HealthCheckTimeout", "proxyhealthchecktimeout", "3000"),
         "proxyhealthchecktimetout")),
     Must(I("MsgStreamTimeTickBufSize", "proxymsgstreamtimetickbufsize", "512")),
     Must(I("MaxNameLength", "proxymaxnamelength", "255")),
     Must(I("MinPasswordLength", "proxyminpasswordlength", "6")),
     Must(I("MaxUsernameLength", "proxymaxusernamelength", "32")),
     Must(I("MaxPasswordLength", "proxymaxpasswordlength", "256")),
     Must(I("MaxFieldNum", "proxymaxfieldnum", "64")),
     Must(I("MaxShardNum", "proxymaxshardnum", "16")),
     Must(I("MaxDimension", "proxymaxdimension", "32768")),
     I("MaxTaskNum", "proxymaxtasknum", "10000"),
     I("GinLogging", "proxyginlogging", "true"),
     I("GinLogSkipPaths", "proxyginlogskippaths", "/"),
     Must(I("MaxUserNum", "proxymaxusernum", "100")),
     Must(I("MaxRoleNum", "proxymaxrolenum", "10")),
     I("SoPath", "proxysopath", "")}

proxyConfig2 ==
    {I("AccessLog.Enable", "proxyaccesslogenable", "false"),
     I("AccessLog.MinioEnable", "proxyaccesslogminioenable", "false"),
     I("AccessLog.LocalPath", "proxyaccessloglocalpath", "/tmp/milvus_access"),
     I("AccessLog.Filename", "proxyaccesslogfilename", ""),
     I("AccessLog.MaxSize", "proxyaccesslogmaxsize", "64"),
     I("AccessLog.CacheSize", "proxyaccesslogcachesize", "10240"),
     I("AccessLog.MaxBackups", "proxyaccesslogmaxbackups", "8"),
     I("AccessLog.RotatedTime", "proxyaccesslogrotatedtime", "0"),
     I("AccessLog.RemotePath", "proxyaccesslogremotepath", "access_log/"),
     I("AccessLog.RemoteMaxTime", "proxyaccesslogremotemaxtime", "0"),
     I("ShardLeaderCacheInterval", "proxyshardleadercacheinterval", "3"),
     I("ReplicaSelectionPolicy", "proxyreplicaselectionpolicy", "look_aside"),
     I("CheckQueryNodeHealthInterval", "proxycheckquerynodehealthinterval", "1000"),
     I("CostMetricsExpireTime", "proxycostmetricsexpiretime", "1000"),
     I("RetryTimesOnReplica", "proxyretrytimesonreplica", "2"),
     I("RetryTimesOnHealthCheck", "proxyretrytimesonhealthcheck", "3"),
     I("PartitionNameRegexp", "proxypartitionnameregexp", "false"),
     I("SkipAutoIDCheck", "proxyskipautoidcheck", "false")}

proxyConfig3 ==
    {I("SkipPartitionKeyCheck", "proxyskippartitionkeycheck", "false"),
     I("GracefulStopTimeout", "proxygracefulstoptimeout", "30"),
     I("SlowQuerySpanInSeconds", "proxyslowqueryspaninseconds", "5"),
     I("ConnectionCheckIntervalSeconds", "proxyconnectioncheckintervalseconds", "120"),
     I("ConnectionClientInfoTTLSeconds", "proxyconnectionclientinfottlseconds", "86400"),
     I("MaxConnectionNum", "proxymaxconnectionnum", "10000")}

queryCoordConfig1 ==
    {I("RetryNum", "querycoordtaskretrynum", "5"),
     I("RetryInterval", "querycoordtaskretryinterval", "10000000000"),
     I("TaskMergeCap", "querycoordtaskmergecap", "1"),
     I("TaskExecutionCap", "querycoordtaskexecutioncap", "256"),
     Must(I("AutoHandoff", "querycoordautohandoff", "true")),
     Must(I("AutoBalance", "querycoordautobalance", "true")),
     Must(I("AutoBalanceChannel", "querycoordautobalancechannel", "true")),
     I("Balancer", "querycoordbalancer", "ScoreBasedBalancer"),
     Must(I("GlobalRowCountFactor", "querycoordglobalrowcountfactor", "0.1")),
     Must(I("ScoreUnbalanceTolerationFactor", "querycoordscoreunbalancetolerationfactor",
         "0.05")),
     Must(I("ReverseUnbalanceTolerationFactor",
         "querycoordreverseunbalancetolerationfactor", "1.3")),
     Must(I("OverloadedMemoryThresholdPercentage",
         "querycoordoverloadedmemorythresholdpercentage", "90")),
     Must(I("BalanceIntervalSeconds", "querycoordbalanceintervalseconds", "60")),
     Must(I("GrowingRowCountWeight", "querycoordgrowingrowcountweight", "4.0")),
     Must(I("DelegatorMemoryOverloadFactor", "querycoorddelegatormemoryoverloadfactor", "0.1")),
     Must(I("MemoryUsageMaxDifferencePercentage",
         "querycoordmemoryusagemaxdifferencepercentage", "30"))}

queryCoordConfig2 ==
    {Must(I("CheckInterval", "querycoordcheckinterval", "10000")),
     Must(I("SegmentCheckInterval", "querycoordchecksegmentinterval", "1000")),
     Must(I("ChannelCheckInterval", "querycoordcheckchannelinterval", "1000")),
     Must(I("BalanceCheckInterval", "querycoordcheckbalanceinterval", "10000")),
     Must(I("IndexCheckInterval", "querycoordcheckindexinterval", "10000")),
     Must(I("ChannelTaskTimeout", "querycoordchanneltasktimeout", "60000")),
     Must(I("SegmentTaskTimeout", "querycoordsegmenttasktimeout", "120000")),
     Must(I("DistPullInterval", "querycoorddistpullinterval", "500")),
     Must(I("LoadTimeoutSeconds", "querycoordloadtimeoutseconds", "600")),
     Must(I("HeartbeatAvailableInterval", "querycoordheartbeatavailableinterval", "10000")),
     Must(I("CheckHandoffInterval", "querycoordcheckhandoffinterval", "5000")),
     I("EnableActiveStandby", "querycoordenableactivestandby", "false"),
     Must(I("NextTargetSurviveTime", "querycoordnexttargetsurvivetime", "300")),
     Must(I("UpdateNextTargetInterval", "querycoordupdatenexttargetinterval", "10")),
     Must(I("CheckNodeInReplicaInterval", "querycoordchecknodeinreplicainterval", "60")),
     Must(I("CheckResourceGroupInterval", "querycoordcheckresourcegroupinterval", "10")),
     Must(I("LeaderViewUpdateInterval", "querycoordleaderviewupdateinterval", "1"))}

queryCoordConfig3 ==
    {Must(I("EnableRGAutoRecover", "querycoordenablergautorecover", "true")),
     Must(I("CheckHealthInterval", "querycoordcheckhealthinterval", "3000")),
     Must(I("CheckHealthRPCTimeout", "querycoordcheckhealthrpctimeout", "2000")),
     Must(I("BrokerTimeout", "querycoordbrokertimeout", "5000")),
     Must(I("CollectionRecoverTimesLimit", "querycoordcollectionrecovertimes", "3")),
     Must(I("ObserverTaskParallel", "querycoordobservertaskparallel", "16")),
     Must(I("CheckAutoBalanceConfigInterval", "querycoordcheckautobalanceconfiginterval",
         "10")),
     Must(I("CheckNodeSessionInterval", "querycoordchecknodesessioninterval", "60")),
     I("DistributionRequestTimeout", "querycoorddistrequesttimeout", "5000"),
     I("HeartBeatWarningLag", "querycoordheatbeatwarninglag", "5000"),
     I("GracefulStopTimeout", "querycoordgracefulstoptimeout", "5"),
     I("CollectionObserverInterval", "querycoordcollectionobserverinterval", "200"),
     I("CheckExecutedFlagInterval", "querycoordcheckexecutedflaginterval", "100")}

queryNodeConfig1 ==
    {I("SoPath", "querynodesopath", ""),
     I("FlowGraphMaxQueueLength", "querynodedatasyncflowgraphmaxqueuelength", "16"),
     I("FlowGraphMaxParallelism", "querynodedatasyncflowgraphmaxparallelism", "1024"),
     I("StatsPublishInterval", "querynodestatspublishinterval", "1000"),
     I("KnowhereThreadPoolSize", "querynodesegcoreknowherethreadpoolnumratio", "4"),
     Via(I("ChunkRows", "querynodesegcorechunkrows", "128"), "number"),
     I("EnableInterimSegmentIndex", "querynodesegcoreinterimindexenableindex", "false"),
     I("KnowhereScoreConsistency", "querynodesegcoreknowherescoreconsistency", "false"),
     I("InterimIndexNlist", "querynodesegcoreinterimindexnlist", "128"),
     I("InterimIndexMemExpandRate", "querynodesegcoreinterimindexmemexpansionrate", "1.15"),
     I("InterimIndexBuildParallelRate", "querynodesegcoreinterimindexbuildparallelrate", "0.5"),
     Via(I("InterimIndexNProbe", "querynodesegcoreinterimindexnprobe", ""), "number"),
     Must(I("LoadMemoryUsageFactor", "querynodeloadmemoryusagefactor", "2")),
     Must(Via(I("OverloadedMemoryThresholdPercentage",
         "querycoordoverloadedmemorythresholdpercentage", "90"), "number"))}

queryNodeConfig2 ==
    {Must(I("CacheMemoryLimit", "querynodecachememorylimit", "2147483648")),
     I("CacheEnabled", "querynodecacheenabled", ""),
     I("MmapDirPath", "querynodemmapdirpath", ""),
     I("ReadAheadPolicy", "querynodecachereadaheadpolicy", "willneed"),
     I("ChunkCacheWarmingUp", "querynodecachewarmup", "async"),
     I("GroupEnabled", "querynodegroupingenabled", "true"),
     I("MaxReceiveChanSize", "querynodeschedulerreceivechansize", "10240"),
     I("MaxReadConcurrency", "querynodeschedulermaxreadconcurrentratio", "1.0"),
     I("MaxGpuReadConcurrency", "querynodeschedulermaxgpureadconcurrency", "6"),
     I("MaxUnsolvedQueueSize", "querynodeschedulerunsolvedqueuesize", "10240"),
     I("MaxGroupNQ", "querynodegroupingmaxnq", "1000"),
     I("TopKMergeRatio", "querynodegroupingtopkmergeratio", "20.0"),
     I("CPURatio", "querynodeschedulercpuratio", "10"),
     I("EnableDisk", "querynodeenabledisk", "false"),
     Via(I("DiskCapacityLimit", "localstoragesize", ""), "disk")}

queryNodeConfig3 ==
    {Must(Via(I("MaxDiskUsagePercentage", "querynodemaxdiskusagepercentage", "95"), "number")),
     I("MaxTimestampLag", "querynodeschedulermaxtimestamplag", "86400"),
     I("GCEnabled", "querynodegcenabled", "true"),
     I("GCHelperEnabled", "querynodegchelperenabled", "true"),
     I("MaximumGOGCConfig", "querynodegchelpermaximumgogc", "200"),
     I("MinimumGOGCConfig", "querynodegchelperminimumgogc", "30"),
     Or(I("GracefulStopTimeout", "querynodegracefulstoptimeout", ""),
         "commongracefulstoptimeout"),
     I("MaxSegmentDeleteBuffer", "querynodemaxsegmentdeletebuffer", "10000000"),
     I("DeleteBufferBlockSize", "querynodedeletebufferblocksize", "1048576"),
     I("IoPoolSize", "querynodeiopoolsize", "0"),
     I("SchedulePolicyName", "querynodeschedulerschedulereadpolicyname", "fifo"),
     I("SchedulePolicyTaskQueueExpire",
         "querynodeschedulerschedulereadpolicytaskqueueexpire", "60"),
     I("SchedulePolicyEnableCrossUserGrouping",
         "querynodeschedulerschedulereadpolicyenablecrossusergrouping", "false"),
     I("SchedulePolicyMaxPendingTaskPerUser",
         "querynodeschedulerschedulereadpolicymaxpendingtaskperuser", "1024"),
     I("CGOPoolSizeRatio", "querynodesegcorecgopoolsizeratio", "2.0"),
     I("EnableWorkerSQCostMetrics", "querynodeenableworkersqcostmetrics", "false"),
     I("MemoryIndexLoadPredictMemoryUsageFactor",
         "querynodememoryindexloadpredictmemoryusagefactor", "2.5"),
     I("BloomFilterApplyParallelFactor", "querynodebloomfilterapplybatchsize", "4")}

dataCoordConfig1 ==
    {I("WatchTimeoutInterval", "datacoordchannelwatchtimeoutinterval", "120"),
     I("ChannelBalanceSilentDuration", "datacoordchannelbalancesilentduration", "300"),
     I("ChannelBalanceInterval", "datacoordchannelbalanceinterval", "360"),
     I("ChannelOperationRPCTimeout", "datacoordchannelnotifychanneloperationtimeout", "5"),
     I("SegmentMaxSize", "datacoordsegmentmaxsize", "512"),
     I("DiskSegmentMaxSize", "datacoordsegmentdisksegmentmaxsize", "512"),
     I("SegmentSealProportion", "datacoordsegmentsealproportion", "0.23"),
     I("SegAssignmentExpiration", "datacoordsegmentassignmentexpiration", "2000"),
     I("AllocLatestExpireAttempt", "datacoordsegmentalloclatestexpireattempt", "200"),
     I("SegmentMaxLifetime", "datacoordsegmentmaxlife", "86400"),
     I("SegmentMaxIdleTime", "datacoordsegmentmaxidletime", "600"),
     I("SegmentMinSizeFromIdleToSealed", "datacoordsegmentminsizefromidletosealed", "16.0"),
     I("SegmentMaxBinlogFileNumber", "datacoordsegmentmaxbinlogfilenumber", "32"),
     I("EnableCompaction", "datacoordenablecompaction", "true"),
     I("EnableAutoCompaction", "datacoordcompactionenableautocompaction", "true"),
     I("IndexBasedCompaction", "datacoordcompactionindexbasedcompaction", "true")}

dataCoordConfig2 ==
    {I("CompactionRPCTimeout", "datacoordcompactionrpctimeout", "10"),
     I("CompactionMaxParallelTasks", "datacoordcompactionmaxparalleltasknum", "10"),
     I("CompactionWorkerParalleTasks", "datacoordcompactionworkermaxparalleltasknum", "2"),
     I("MinSegmentToMerge", "datacoordcompactionminsegment", "3"),
     I("MaxSegmentToMerge", "datacoordcompactionmaxsegment", "30"),
     I("SegmentSmallProportion", "datacoordsegmentsmallproportion", "0.5"),
     I("SegmentCompactableProportion", "datacoordsegmentcompactableproportion", "0.85"),
     I("SegmentExpansionRate", "datacoordsegmentexpansionrate", "1.25"),
     I("CompactionTimeoutInSeconds", "datacoordcompactiontimeout", "900"),
     I("CompactionCheckIntervalInSeconds", "datacoordcompactioncheckinterval", "10"),
     I("SingleCompactionRatioThreshold", "datacoordcompactionsingleratiothreshold", "0.2"),
     I("SingleCompactionDeltaLogMaxSize", "datacoordcompactionsingledeltalogmaxsize",
         "2097152"),
     I("SingleCompactionExpiredLogMaxSize", "datacoordcompactionsingleexpiredlogmaxsize",
         "10485760"),
     I("SingleCompactionDeltalogMaxNum", "datacoordcompactionsingledeltalogmaxnum", "200"),
     I("GlobalCompactionInterval", "datacoordcompactionglobalinterval", "60"),
     I("EnableGarbageCollection", "datacoordenablegarbagecollection", "true"),
     I("GCInterval", "datacoordgcinterval", "3600"),
     I("GCScanIntervalInHour", "datacoordgcscaninterval", "168")}

dataCoordConfig3 ==
    {I("GCMissingTolerance", "datacoordgcmissingtolerance", "3600"),
     I("GCDropTolerance", "datacoordgcdroptolerance", "10800"),
     I("GCRemoveConcurrent", "datacoordgcremoveconcurrent", "32"),
     I("EnableActiveStandby", "datacoordenableactivestandby", "false"),
     I("MinSegmentNumRowsToEnableIndex",
         "indexcoordsegmentminsegmentnumrowstoenableindex", "1024"),
     I("BindIndexNodeMode", "indexcoordbindindexnodemodeenable", "false"),
     I("IndexNodeAddress", "indexcoordbindindexnodemodeaddress", "localhost:22930"),
     I("WithCredential", "indexcoordbindindexnodemodewithcred", "false"),
     I("IndexNodeID", "indexcoordbindindexnodemodenodeid", "0"),
     I("IndexTaskSchedulerInterval", "indexcoordschedulerinterval", "1000"),
     Must(I("AutoBalance", "datacoordautobalance", "true")),
     Must(I("CheckAutoBalanceConfigInterval", "datacoordcheckautobalanceconfiginterval", "10")),
     Must(I("AutoUpgradeSegmentIndex", "datacoordautoupgradesegmentindex", "false")),
     I("GracefulStopTimeout", "datacoordgracefulstoptimeout", "5")}

dataNodeConfig1 ==
    {I("FlowGraphMaxQueueLength", "datanodedatasyncflowgraphmaxqueuelength", "16"),
     I("FlowGraphMaxParallelism", "datanodedatasyncflowgraphmaxparallelism", "1024"),
     I("FlowGraphSkipModeEnable", "datanodedatasyncskipmodeenable", "true"),
     I("FlowGraphSkipModeSkipNum", "datanodedatasyncskipmodeskipnum", "4"),
     I("FlowGraphSkipModeColdTime", "datanodedatasyncskipmodecoldtime", "60"),
     I("MaxParallelSyncTaskNum", "datanodedatasyncmaxparallelsynctasknum", "6"),
     Must(Or(I("FlushInsertBufferSize", "datanodesegmentinsertbufsize", "16777216"),
         "datanodeibufsize")),
     I("MemoryForceSyncEnable", "datanodememoryforcesyncenable", "true"),
     I("MemoryForceSyncSegmentNum", "datanodememoryforcesyncsegmentnum", "1"),
     I("FlushDeleteBufferBytes", "datanodesegmentdeletebufbytes", "67108864"),
     I("BinLogMaxSize", "datanodesegmentbinlogmaxsize", "67108864"),
     I("SyncPeriod", "datanodesegmentsyncperiod", "600"),
     I("WatchEventTicklerInterval", "datanodesegmentwatcheventticklerinterval", "15"),
     I("IOConcurrency", "datanodedatasyncioconcurrency", "16"),
     I("FileReadConcurrency", "datanodemultireadconcurrency", "16")}

dataNodeConfig2 ==
    {I("DataNodeTimeTickByRPC", "datanodetimetickbyrpc", "true"),
     I("DataNodeTimeTickInterval", "datanodetimetickinterval", "500"),
     I("SkipBFStatsLoad", "datanodeskipbfstatsload", "false"),
     I("BulkInsertTimeoutSeconds", "datanodebulkinserttimeoutseconds", "18000"),
     I("BulkInsertReadBufferSize", "datanodebulkinsertreadbuffersize", "16777216"),
     I("BulkInsertMaxMemorySize", "datanodebulkinsertmaxmemorysize", "6442450944"),
     I("ChannelWorkPoolSize", "datanodechannelworkpoolsize", "-1"),
     I("UpdateChannelCheckpointMaxParallel",
         "datanodechannelupdatechannelcheckpointmaxparallel", "10"),
     I("UpdateChannelCheckpointInterval",
         "datanodechannelupdatechannelcheckpointinterval", "60"),
     I("UpdateChannelCheckpointRPCTimeout",
         "datanodechannelupdatechannelcheckpointrpctimeout", "20"),
     I("MaxChannelCheckpointsPerRPC", "datanodechannelmaxchannelcheckpointsperprc", "128"),
     I("ChannelCheckpointUpdateTickInSeconds",
         "datanodechannelchannelcheckpointupdatetickinseconds", "10"),
     I("GracefulStopTimeout", "datanodegracefulstoptimeout", "1800"),
     I("FlushMgrCleanInterval", "datanodeflushmgrcleaninterval", "300"),
     I("BloomFilterApplyParallelFactor", "datanodebloomfilterapplybatchsize", "4")}

indexNodeConfig ==
    {I("BuildParallel", "indexnodeschedulerbuildparallel", "1"),
     Must(I("EnableDisk", "indexnodeenabledisk", "false")),
     Via(I("DiskCapacityLimit", "localstoragesize", ""), "disk"),
     Must(Via(I("MaxDiskUsagePercentage", "indexnodemaxdiskusagepercentage", "95"), "number")),
     Or(I("GracefulStopTimeout", "indexnodegracefulstoptimeout", ""),
         "commongracefulstoptimeout")}

integrationTestConfig ==
    {Must(I("IntegrationMode", "integrationtestmode", "false"))}

etcdConfig1 ==
    {Must(I("Endpoints", "etcdendpoints", "localhost:2379")),
     I("UseEmbedEtcd", "etcduseembed", "false"),
     I("ConfigPath", "etcdconfigpath", ""),
     I("DataDir", "etcddatadir", "default.etcd"),
     Must(I("RootPath", "etcdrootpath", "by-dev")),
     Must(I("MetaSubPath", "etcdmetasubpath", "meta")),
     Must(I("KvSubPath", "etcdkvsubpath", "kv")),
     I("EtcdLogLevel", "etcdloglevel", "info"),
     I("EtcdLogPath", "etcdlogpath", "stdout"),
     I("EtcdUseSSL", "etcdsslenabled", "false"),
     I("EtcdTLSCert", "etcdssltlscert", ""),
     I("EtcdTLSKey", "etcdssltlskey", ""),
     I("EtcdTLSCACert", "etcdssltlscacert", ""),
     I("EtcdTLSMinVersion", "etcdssltlsminversion", "1.3")}

etcdConfig2 ==
    {I("RequestTimeout", "etcdrequesttimeout", "10000")}

tiKVConfig ==
    {Must(I("Endpoints", "tikvendpoints", "localhost:2379")),
     Must(I("RootPath", "tikvrootpath", "by-dev")),
     Must(I("MetaSubPath", "tikvmetasubpath", "meta")),
     Must(I("KvSubPath", "tikvkvsubpath", "kv")),
     I("RequestTimeout", "tikvrequesttimeout", "10000"),
     I("SnapshotScanSize", "tikvsnapshotscansize", "256"),
     I("TiKVUseSSL", "tikvsslenabled", "false"),
     I("TiKVTLSCert", "tikvssltlscert", ""),
     I("TiKVTLSKey", "tikvssltlskey", ""),
     I("TiKVTLSCACert", "tikvssltlscacert", "")}

localStorageConfig ==
    {I("Path", "localstoragepath", "/var/lib/milvus/data")}

metaStoreConfig ==
    {I("MetaStoreType", "metastoretype", "etcd")}

mQConfig ==
    {I("Type", "mqtype", "default"),
     I("EnablePursuitMode", "mqenablepursuitmode", "true"),
     I("PursuitLag", "mqpursuitlag", "10"),
     I("PursuitBufferSize", "mqpursuitbuffersize", "8"),
     I("MQBufSize", "mqmqbufsize", "16"),
     I("ReceiveBufSize", "mqreceivebufsize", "16"),
     I("IgnoreBadPosition", "mqignorebadposition", "false")}

pulsarConfig ==
    {I("Port", "pulsarport", "6650"),
     Via(I("Address", "pulsaraddress", ""), "address"),
     I("WebPort", "pulsarwebport", "80"),
     Via(I("WebAddress", "pulsarwebaddress", ""), "web"),
     I("MaxMessageSize", "pulsarmaxmessagesize", "5242880"),
     I("Tenant", "pulsartenant", "public"),
     I("Namespace", "pulsarnamespace", "default"),
     I("AuthPlugin", "pulsarauthplugin", ""),
     Via(I("AuthParams", "pulsarauthparams", ""), "json"),
     I("RequestTimeout", "pulsarrequesttimeout", "60"),
     I("EnableClientMetrics", "pulsarenableclientmetrics", "false")}

kafkaConfig ==
    {I("Address", "kafkabrokerlist", ""),
     I("SaslUsername", "kafkasaslusername", ""),
     I("SaslPassword", "kafkasaslpassword", ""),
     I("SaslMechanisms", "kafkasaslmechanisms", ""),
     I("SecurityProtocol", "kafkasecurityprotocol", ""),
     I("KafkaUseSSL", "kafkasslenabled", "false"),
     I("KafkaTLSCert", "kafkassltlscert", ""),
     I("KafkaTLSKey", "kafkassltlskey", ""),
     I("KafkaTLSCACert", "kafkassltlscacert", ""),
     I("KafkaTLSKeyPassword", "kafkassltlskeypassword", ""),
     I("ReadTimeout", "kafkareadtimeout", "10")}

rocksmqConfig ==
    {I("Path", "rocksmqpath", ""),
     I("LRUCacheRatio", "rocksmqlrucacheratio", "0.0.6"),
     I("PageSize", "rocksmqrocksmqpagesize", "67108864"),
     I("RetentionTimeInMinutes", "rocksmqretentiontimeinminutes", "4320"),
     I("RetentionSizeInMB", "rocksmqretentionsizeinmb", "7200"),
     I("CompactionInterval", "rocksmqcompactioninterval", "86400"),
     I("TickerTimeInSeconds", "rocksmqtimtickerinterval", "600"),
     I("CompressionTypes", "rocksmqcompressiontypes", "0,0,7,7,7")}

natsmqConfig ==
    {I("ServerPort", "natsmqserverport", "4222"),
     I("ServerStoreDir", "natsmqserverstoredir", "/var/lib/milvus/nats"),
     I("ServerMaxFileStore", "natsmqservermaxfilestore", "17179869184"),
     I("ServerMaxPayload", "natsmqservermaxpayload", "8388608"),
     I("ServerMaxPending", "natsmqservermaxpending", "67108864"),
     I("ServerInitializeTimeout", "natsmqserverinitializetimeout", "4000"),
     I("ServerMonitorTrace", "natsmqservermonitortrace", "false"),
     I("ServerMonitorDebug", "natsmqservermonitordebug", "false"),
     I("ServerMonitorLogTime", "natsmqservermonitorlogtime", "true"),
     I("ServerMonitorLogFile", "natsmqservermonitorlogfile", "/tmp/milvus/logs/nats.log"),
     I("ServerMonitorLogSizeLimit", "natsmqservermonitorlogsizelimit", "536870912"),
     I("ServerRetentionMaxAge", "natsmqserverretentionmaxage", "4320"),
     I("ServerRetentionMaxBytes", "natsmqserverretentionmaxbytes", ""),
     I("ServerRetentionMaxMsgs", "natsmqserverretentionmaxmsgs", "")}

minioConfig1 ==
    {Must(I("Port", "minioport", "9000")),
     Via(I("Address", "minioaddress", ""), "address"),
     I("AccessKeyID", "minioaccesskeyid", "minioadmin"),
     I("SecretAccessKey", "miniosecretaccesskey", "minioadmin"),
     Must(I("UseSSL", "miniousessl", "false")),
     I("SslCACert", "miniossltlscacert", ""),
     Must(I("BucketName", "miniobucketname", "a-bucket")),
     Via(I("RootPath", "miniorootpath", ""), "path"),
     I("UseIAM", "miniouseiam", "false"),
     I("CloudProvider", "miniocloudprovider", "aws"),
     I("IAMEndpoint", "minioiamendpoint", ""),
     I("LogLevel", "miniologlevel", "fatal"),
     I("Region", "minioregion", "")}

minioConfig2 ==
    {Must(I("UseVirtualHost", "miniousevirtualhost", "false")),
     I("RequestTimeoutMs", "miniorequesttimeoutms", "10000")}

httpConfig ==
    {I("Enabled", "proxyhttpenabled", "true"),
     I("DebugMode", "proxyhttpdebugmode", "false"),
     I("Port", "proxyhttpport", ""),
     I("AcceptTypeAllowInt64", "proxyhttpaccepttypeallowint64", "true"),
     I("EnablePprof", "proxyhttpenablepprof", "true")}

roleConfig ==
    {I("Enabled", "builtinrolesenable", "false"),
     I("Roles", "builtinrolesroles", "{}")}

quotaConfig1 ==
    {I("QuotaAndLimitsEnabled", "quotaandlimitsenabled", "false"),
     Via(I("QuotaCenterCollectInterval", "quotaandlimitsquotacentercollectinterval",
         "3.0"), "quota"),
     I("DDLLimitEnabled", "quotaandlimitsddlenabled", "false"),
     Via(I("DDLCollectionRate", "quotaandlimitsddlcollectionrate", "max"), "quota"),
     Via(I("DDLPartitionRate", "quotaandlimitsddlpartitionrate", "max"), "quota"),
     I("IndexLimitEnabled", "quotaandlimitsindexrateenabled", "false"),
     Via(I("MaxIndexRate", "quotaandlimitsindexratemax", "max"), "quota"),
     I("FlushLimitEnabled", "quotaandlimitsflushrateenabled", "false"),
     Via(I("MaxFlushRate", "quotaandlimitsflushratemax", "max"), "quota"),
     Via(I("MaxFlushRatePerCollection", "quotaandlimitsflushratecollectionmax", "-1"), "quota")}

quotaConfig2 ==
    {I("CompactionLimitEnabled", "quotaandlimitscompactionrateenabled", "false"),
     Via(I("MaxCompactionRate", "quotaandlimitscompactionratemax", "max"), "quota"),
     I("DMLLimitEnabled", "quotaandlimitsdmlenabled", "false"),
     Via(I("DMLMaxInsertRate", "quotaandlimitsdmlinsertratemax", "max"), "quota"),
     Via(I("DMLMinInsertRate", "quotaandlimitsdmlinsertratemin", "0.0"), "quota"),
     Via(I("DMLMaxInsertRatePerCollection", "quotaandlimitsdmlinsertratecollectionmax",
         "max"), "quota"),
     Via(I("DMLMinInsertRatePerCollection", "quotaandlimitsdmlinsertratecollectionmin",
         "0.0"), "quota"),
     Via(I("DMLMaxUpsertRate", "quotaandlimitsdmlupsertratemax", "max"), "quota")}

quotaConfig3 ==
    {Via(I("DMLMinUpsertRate", "quotaandlimitsdmlupsertratemin", "0.0"), "quota"),
     Via(I("DMLMaxUpsertRatePerCollection", "quotaandlimitsdmlupsertratecollectionmax",
         "max"), "quota"),
     Via(I("DMLMinUpsertRatePerCollection", "quotaandlimitsdmlupsertratecollectionmin",
         "0.0"), "quota"),
     Via(I("DMLMaxDeleteRate", "quotaandlimitsdmldeleteratemax", "max"), "quota"),
     Via(I("DMLMinDeleteRate", "quotaandlimitsdmldeleteratemin", "0.0"), "quota"),
     Via(I("DMLMaxDeleteRatePerCollection", "quotaandlimitsdmldeleteratecollectionmax",
         "max"), "quota")}

quotaConfig4 ==
    {Via(I("DMLMinDeleteRatePerCollection", "quotaandlimitsdmldeleteratecollectionmin",
         "0.0"), "quota"),
     Via(I("DMLMaxBulkLoadRate", "quotaandlimitsdmlbulkloadratemax", "max"), "quota"),
     Via(I("DMLMinBulkLoadRate", "quotaandlimitsdmlbulkloadratemin", "0.0"), "quota"),
     Via(I("DMLMaxBulkLoadRatePerCollection",
         "quotaandlimitsdmlbulkloadratecollectionmax", "max"), "quota"),
     Via(I("DMLMinBulkLoadRatePerCollection",
         "quotaandlimitsdmlbulkloadratecollectionmin", "0.0"), "quota"),
     I("DQLLimitEnabled", "quotaandlimitsdqlenabled", "false"),
     Via(I("DQLMaxSearchRate", "quotaandlimitsdqlsearchratemax", "max"), "quota")}

quotaConfig5 ==
    {Via(I("DQLMinSearchRate", "quotaandlimitsdqlsearchratemin", "0.0"), "quota"),
     Via(I("DQLMaxSearchRatePerCollection", "quotaandlimitsdqlsearchratecollectionmax",
         "max"), "quota"),
     Via(I("DQLMinSearchRatePerCollection", "quotaandlimitsdqlsearchratecollectionmin",
         "0.0"), "quota"),
     Via(I("DQLMaxQueryRate", "quotaandlimitsdqlqueryratemax", "max"), "quota"),
     Via(I("DQLMinQueryRate", "quotaandlimitsdqlqueryratemin", "0.0"), "quota"),
     Via(I("DQLMaxQueryRatePerCollection", "quotaandlimitsdqlqueryratecollectionmax",
         "max"), "quota"),
     Via(I("DQLMinQueryRatePerCollection", "quotaandlimitsdqlqueryratecollectionmin",
         "0.0"), "quota"),
     I("MaxCollectionNum", "quotaandlimitslimitsmaxcollectionnum", "65536")}

quotaConfig6 ==
    {I("MaxCollectionNumPerDB", "quotaandlimitslimitsmaxcollectionnumperdb", "64"),
     Or(I("TopKLimit", "quotaandlimitslimitstopk", "16384"), "commontopklimit"),
     I("NQLimit", "quotaandlimitslimitsnq", "16384"),
     I("MaxQueryResultWindow", "quotaandlimitslimitsmaxqueryresultwindow", "16384"),
     I("MaxOutputSize", "quotaandlimitslimitsmaxoutputsize", "104857600"),
     I("ForceDenyWriting", "quotaandlimitslimitwritingforcedeny", "false"),
     I("TtProtectionEnabled", "quotaandlimitslimitwritingttprotectionenabled", "false"),
     Via(I("MaxTimeTickDelay", "quotaandlimitslimitwritingttprotectionmaxtimetickdelay",
         "300.0"), "quota"),
     I("MemProtectionEnabled", "quotaandlimitslimitwritingmemprotectionenabled", "true"),
     Via(I("DataNodeMemoryLowWaterLevel",
         "quotaandlimitslimitwritingmemprotectiondatanodememorylowwaterlevel", "0.85"), "quota"),
     Via(I("DataNodeMemoryHighWaterLevel",
         "quotaandlimitslimitwritingmemprotectiondatanodememoryhighwaterlevel", "0.95"), "quota")}

quotaConfig7 ==
    {Via(I("QueryNodeMemoryLowWaterLevel",
         "quotaandlimitslimitwritingmemprotectionquerynodememorylowwaterlevel", "0.85"), "quota"),
     Via(I("QueryNodeMemoryHighWaterLevel",
         "quotaandlimitslimitwritingmemprotectionquerynodememoryhighwaterlevel", "0.95"), "quota"),
     I("GrowingSegmentsSizeProtectionEnabled",
         "quotaandlimitslimitwritinggrowingsegmentssizeprotectionenabled", "false"),
     Via(I("GrowingSegmentsSizeMinRateRatio",
         "quotaandlimitslimitwritinggrowingsegmentssizeprotectionminrateratio", "0.5"), "quota"),
     Via(I("GrowingSegmentsSizeLowWaterLevel",
         "quotaandlimitslimitwritinggrowingsegmentssizeprotectionlowwaterlevel", "0.2"), "quota"),
     Via(I("GrowingSegmentsSizeHighWaterLevel",
         "quotaandlimitslimitwritinggrowingsegmentssizeprotectionhighwaterlevel", "0.4"), "quota"),
     I("DiskProtectionEnabled", "quotaandlimitslimitwritingdiskprotectionenabled", "true"),
     Via(I("DiskQuota", "quotaandlimitslimitwritingdiskprotectiondiskquota", "max"), "quota")}

quotaConfig8 ==
    {Via(I("DiskQuotaPerCollection",
         "quotaandlimitslimitwritingdiskprotectiondiskquotapercollection", "max"), "quota"),
     I("ForceDenyReading", "quotaandlimitslimitreadingforcedeny", "false"),
     I("QueueProtectionEnabled", "quotaandlimitslimitreadingqueueprotectionenabled", "false"),
     Via(I("NQInQueueThreshold",
         "quotaandlimitslimitreadingqueueprotectionnqinqueuethreshold", "9223372036854775807"), "quota"),
     Via(I("QueueLatencyThreshold",
         "quotaandlimitslimitreadingqueueprotectionqueuelatencythreshold", "max"), "quota"),
     I("ResultProtectionEnabled", "quotaandlimitslimitreadingresultprotectionenabled", "false"),
     Via(I("MaxReadResultRate",
         "quotaandlimitslimitreadingresultprotectionmaxreadresultrate", "max"), "quota"),
     Via(I("CoolOffSpeed", "quotaandlimitslimitreadingcooloffspeed", "0.9"), "quota"),
     I("AllocRetryTimes", "quotaandlimitslimitsallocretrytimes", "15")}

quotaConfig9 ==
    {I("AllocWaitInterval", "quotaandlimitslimitsallocwaitinterval", "1000"),
     I("ComplexDeleteLimitEnable", "quotaandlimitslimitscomplexdeletelimitenable", "false")}

\* The keys of the grpc configurations begin with the name of the node, in lower case.
grpcConfigOnePort(domain) ==                                                  \* mutant
    {I("Port", domain \o "port", "19530"), I("InternalPort", domain \o "port", "19529")}
grpcConfig(domain) ==
    {I("IP", domain \o "ip", ""),
     I("Port", domain \o "port", "19530"),
     I("InternalPort", domain \o "internalport", "19529"),
     I("TLSMode", "commonsecuritytlsmode", "0"),
     I("ServerPemPath", "tlsserverpempath", ""),
     I("ServerKeyPath", "tlsserverkeypath", ""),
     I("CaPemPath", "tlscapempath", "")}

grpcServerConfig(domain) ==
    {Via(Or(I("ServerMaxSendSize", domain \o "grpcservermaxsendsize", "536870912"),
            "grpcservermaxsendsize"), "parse"),
     Via(Or(I("ServerMaxRecvSize", domain \o "grpcservermaxrecvsize", "268435456"),
            "grpcservermaxrecvsize"), "parse"),
     I("GracefulStopTimeout", "grpcgracefulstoptimeout", "10")}

\* The formatters of these items put in the default value, the literals have none; to
\* the reader that is the same.
grpcClientConfig1(domain) ==
    {Via(Or(I("ClientMaxSendSize", domain \o "grpcclientmaxsendsize", "268435456"),
            "grpcclientmaxsendsize"), "parse"),
     Via(Or(I("ClientMaxRecvSize", domain \o "grpcclientmaxrecvsize", "536870912"),
            "grpcclientmaxrecvsize"), "parse"),
     Via(I("DialTimeout", "grpcclientdialtimeout", "200"), "parse"),
     Via(I("KeepAliveTimeout", "grpcclientkeepalivetimeout", "20000"), "parse"),
     Via(I("KeepAliveTime", "grpcclientkeepalivetime", "10000"), "parse"),
     Via(I("MaxAttempts", "grpcclientmaxmaxattempts", "10"), "parse")}

grpcClientConfig2(domain) ==
    {Via(I("InitialBackoff", "grpcclientinitialbackoff", "0.200000"), "parse"),
     Via(I("MaxBackoff", "grpcclientmaxbackoff", "10.000000"), "parse"),
     Via(I("CompressionEnabled", "grpcclientcompressionenabled", "false"), "parse"),
     Via(I("MinResetInterval", "grpcclientminresetinterval", "1000"), "parse"),
     Via(I("MinSessionCheckInterval", "grpcclientminsessioncheckinterval", "200"), "parse"),
     Via(I("MaxCancelError", "grpcclientmaxcancelerror", "32"), "parse")}

autoIndexConfig ==
    {Must(I("Enable", "autoindexenable", "false")),
     I("IndexParams", "autoindexparamsbuild", "HNSW"),
     I("PrepareParams", "autoindexparamsprepare", ""),
     I("ExtraParams", "autoindexparamsextra", ""),
     I("AutoIndexTypeName", "autoindextype", ""),
     I("AutoIndexSearchConfig", "autoindexparamssearch", "")}

Domains == {"rootcoord", "proxy", "querycoord", "querynode", "datacoord", "datanode", "indexnode"}

\* ComponentParam.init: one configuration after the other, the grpc ones once per node.
Table ==
    UNION {Of(<<"commonConfig", "">>,
              commonConfig1 \cup commonConfig2 \cup commonConfig3 \cup commonConfig4),
           Of(<<"traceConfig", "">>, traceConfig),
           Of(<<"logConfig", "">>, logConfig),
           Of(<<"rootCoordConfig", "">>, rootCoordConfig),
           Of(<<"proxyConfig", "">>,
              proxyConfig1 \cup proxyConfig2 \cup proxyConfig3),
           Of(<<"queryCoordConfig", "">>,
              queryCoordConfig1 \cup queryCoordConfig2 \cup queryCoordConfig3),
           Of(<<"queryNodeConfig", "">>,
              queryNodeConfig1 \cup queryNodeConfig2 \cup queryNodeConfig3),
           Of(<<"dataCoordConfig", "">>,
              dataCoordConfig1 \cup dataCoordConfig2 \cup dataCoordConfig3),
           Of(<<"dataNodeConfig", "">>, dataNodeConfig1 \cup dataNodeConfig2),
           Of(<<"indexNodeConfig", "">>, indexNodeConfig),
           Of(<<"integrationTestConfig", "">>, integrationTestConfig),
           Of(<<"etcdConfig", "">>, etcdConfig1 \cup etcdConfig2),
           Of(<<"tiKVConfig", "">>, tiKVConfig),
           Of(<<"localStorageConfig", "">>, localStorageConfig),
           Of(<<"metaStoreConfig", "">>, metaStoreConfig),
           Of(<<"mQConfig", "">>, mQConfig),
           Of(<<"pulsarConfig", "">>, pulsarConfig),
           Of(<<"kafkaConfig", "">>, kafkaConfig),
           Of(<<"rocksmqConfig", "">>, rocksmqConfig),
           Of(<<"natsmqConfig", "">>, natsmqConfig),
           Of(<<"minioConfig", "">>, minioConfig1 \cup minioConfig2),
           Of(<<"httpConfig", "">>, httpConfig),
           Of(<<"roleConfig", "">>, roleConfig),
           Of(<<"quotaConfig", "">>,
              quotaConfig1 \cup quotaConfig2 \cup quotaConfig3 \cup quotaConfig4 \cup
              quotaConfig5 \cup quotaConfig6 \cup quotaConfig7 \cup quotaConfig8 \cup
              quotaConfig9),
           Of(<<"autoIndexConfig", "">>, autoIndexConfig)}
    \cup UNION {UNION {Of(<<"server", domain>>, grpcConfig(domain) \cup grpcServerConfig(domain)),
                       Of(<<"client", domain>>, grpcConfig(domain) \cup grpcClientConfig1(domain)
                                                \cup grpcClientConfig2(domain))} :
                    domain \in Domains}

\* The configuration file names the channels and subscriptions, which have no default.
Shipped == [key \in {item.key : item \in {i \in Table : i.format = "prefix"}} |-> key]

\* The items that formatters of other items read.
Cluster == CHOOSE item \in Table : item.name = "ClusterPrefix"
PulsarAddress == CHOOSE item \in Table : item.owner[1] = "pulsarConfig" /\ item.name = "Address"
-------------------------------------------------------------------------------
(***************************************************************************)
(* The collectors, file by file, and the ones each Register function       *)
(* enters.  A collector is the Go variable, the subsystem and name it is   *)
(* published under, and its labels; help texts and buckets are left out.   *)
(***************************************************************************)
M(v, subsystem, name, labels) ==
    [var |-> v, fq |-> <<subsystem, name>>, labels |-> labels]

commonMetrics == {
    M("NumNodes", "", "num_node", {"node_id", "role_name"}),
    M("LockCosts", "", "lock_time_cost", {"lock_name", "lock_source", "lock_type", "lock_op"})}

infoMetrics == {
    M("BuildInfo", "", "build_info", {"version", "built", "git_commit"}),
    M("RuntimeInfo", "", "runtime_info", {"mq", "meta"})}

rootCoordMetrics1 == {
    M("RootCoordProxyCounter", "rootcoord", "proxy_num", {}),
    M("RootCoordInsertChannelTimeTick", "rootcoord", "produce_tt_lag_ms", {"channel_name"}),
    M("RootCoordDDLReqCounter", "rootcoord", "ddl_req_count", {"function_name", "status"}),
    M("RootCoordDDLReqLatency", "rootcoord", "ddl_req_latency", {"function_name"}),
    M("RootCoordSyncTimeTickLatency", "rootcoord", "sync_timetick_latency", {}),
    M("RootCoordIDAllocCounter", "rootcoord", "id_alloc_count", {}),
    M("RootCoordTimestamp", "rootcoord", "timestamp", {}),
    M("RootCoordTimestampSaved", "rootcoord", "timestamp_saved", {}),
    M("RootCoordNumOfDatabases", "rootcoord", "database_num", {}),
    M("RootCoordNumOfCollections", "rootcoord", "collection_num", {}),
    M("RootCoordNumOfPartitions", "rootcoord", "partition_num", {}),
    M("RootCoordNumOfDMLChannel", "rootcoord", "dml_channel_num", {}),
    M("RootCoordNumOfMsgStream", "rootcoord", "msgstream_obj_num", {}),
    M("RootCoordNumOfCredentials", "rootcoord", "credential_num", {}),
    M("RootCoordNumOfRoles", "rootcoord", "num_of_roles", {}),
    M("RootCoordTtDelay", "rootcoord", "time_tick_delay", {"role_name", "node_id"})}

rootCoordMetrics2 == {
    M("RootCoordQuotaStates", "rootcoord", "quota_states", {"quota_states", "db_name"}),
    M("RootCoordForceDenyWritingCounter", "rootcoord", "force_deny_writing_counter", {}),
    M("RootCoordRateLimitRatio", "rootcoord", "rate_limit_ratio", {"collection_id"}),
    M("RootCoordDDLReqLatencyInQueue", "rootcoord", "ddl_req_latency_in_queue",
      {"function_name"}),
    M("RootCoordNumEntities", "rootcoord", "entity_num", {"collection_name", "status"}),
    M("RootCoordIndexedNumEntities", "rootcoord", "indexed_entity_num",
      {"collection_name", "index_name", "is_vector_index"}),
    M("QueryNodeMemoryHighWaterLevel", "rootcoord", "qn_mem_high_water_level", {}),
    M("DiskQuota", "rootcoord", "disk_quota", {"node_id", "scope"})}

proxyMetrics1 == {
    M("ProxyReceivedNQ", "proxy", "received_nq", {"node_id", "query_type", "collection_name"}),
    M("ProxySearchVectors", "proxy", "search_vectors_count", {"node_id"}),
    M("ProxyInsertVectors", "proxy", "insert_vectors_count", {"node_id"}),
    M("ProxyUpsertVectors", "proxy", "upsert_vectors_count", {"node_id"}),
    M("ProxyDeleteVectors", "proxy", "delete_vectors_count", {"node_id"}),
    M("ProxySQLatency", "proxy", "sq_latency", {"node_id", "query_type"}),
    M("ProxyCollectionSQLatency", "proxy", "collection_sq_latency",
      {"node_id", "query_type", "collection_name"}),
    M("ProxyMutationLatency", "proxy", "mutation_latency", {"node_id", "msg_type"}),
    M("ProxyCollectionMutationLatency", "proxy", "collection_mutation_latency",
      {"node_id", "msg_type", "collection_name"}),
    M("ProxyWaitForSearchResultLatency", "proxy", "sq_wait_result_latency",
      {"node_id", "query_type"}),
    M("ProxyReduceResultLatency", "proxy", "sq_reduce_result_latency",
      {"node_id", "query_type"}),
    M("ProxyDecodeResultLatency", "proxy", "sq_decode_result_latency",
      {"node_id", "query_type"}),
    M("ProxyMsgStreamObjectsForPChan", "proxy", "msgstream_obj_num",
      {"node_id", "channel_name"}),
    M("ProxySendMutationReqLatency", "proxy", "mutation_send_latency", {"node_id", "msg_type"}),
    M("ProxyAssignSegmentIDLatency", "proxy", "assign_segmentID_latency", {"node_id"}),
    M("ProxySyncSegmentRequestLength", "proxy", "sync_segment_request_length", {"node_id"})}

proxyMetrics2 == {
    M("ProxyCacheStatsCounter", "proxy", "cache_hit_count",
      {"node_id", "cache_name", "cache_state"}),
    M("ProxyUpdateCacheLatency", "proxy", "cache_update_latency", {"node_id", "cache_name"}),
    M("ProxySyncTimeTickLag", "proxy", "tt_lag_ms", {"node_id", "channel_name"}),
    M("ProxyApplyPrimaryKeyLatency", "proxy", "apply_pk_latency", {"node_id"}),
    M("ProxyApplyTimestampLatency", "proxy", "apply_timestamp_latency", {"node_id"}),
    M("ProxyFunctionCall", "proxy", "req_count", {"node_id", "function_name", "status"}),
    M("ProxyReqLatency", "proxy", "req_latency", {"node_id", "function_name"}),
    M("ProxyReceiveBytes", "proxy", "receive_bytes_count",
      {"node_id", "msg_type", "collection_name"}),
    M("ProxyReadReqSendBytes", "proxy", "send_bytes_count", {"node_id"}),
    M("ProxyLimiterRate", "proxy", "limiter_rate", {"node_id", "collection_id", "msg_type"}),
    M("ProxyHookFunc", "proxy", "hook_func_count", {"function_name", "full_method"}),
    M("UserRPCCounter", "proxy", "user_rpc_count", {"username"}),
    M("ProxyWorkLoadScore", "proxy", "workload_score", {"node_id"}),
    M("ProxyExecutingTotalNq", "proxy", "executing_total_nq", {"node_id"}),
    M("ProxyRateLimitReqCount", "proxy", "rate_limit_req_count",
      {"node_id", "msg_type", "status"}),
    M("ProxySlowQueryCount", "proxy", "slow_query_count", {"node_id", "msg_type"})}

proxyMetrics3 == {
    M("ProxyReqInQueueLatency", "proxy", "req_in_queue_latency", {"node_id", "function_name"}),
    M("MaxInsertRate", "proxy", "max_insert_rate", {"node_id", "scope"})}

queryCoordMetrics == {
    M("QueryCoordNumCollections", "querycoord", "collection_num", {}),
    M("QueryCoordNumPartitions", "querycoord", "partition_num", {}),
    M("QueryCoordLoadCount", "querycoord", "load_req_count", {"status"}),
    M("QueryCoordReleaseCount", "querycoord", "release_req_count", {"status"}),
    M("QueryCoordLoadLatency", "querycoord", "load_latency", {}),
    M("QueryCoordReleaseLatency", "querycoord", "release_latency", {}),
    M("QueryCoordTaskNum", "querycoord", "task_num", {"querycoord_task_type"}),
    M("QueryCoordNumQueryNodes", "querycoord", "querynode_num", {}),
    M("QueryCoordCurrentTargetCheckpointUnixSeconds", "querycoord", "current_target_checkpoint_unix_seconds",
      {"node_id", "channel_name"})}

queryNodeMetrics1 == {
    M("QueryNodeNumCollections", "querynode", "collection_num", {"node_id"}),
    M("QueryNodeConsumeTimeTickLag", "querynode", "consume_tt_lag_ms",
      {"node_id", "msg_type", "collection_id"}),
    M("QueryNodeProcessCost", "querynode", "process_insert_or_delete_latency",
      {"node_id", "msg_type"}),
    M("QueryNodeApplyBFCost", "querynode", "apply_bf_latency", {"function_name", "node_id"}),
    M("QueryNodeForwardDeleteCost", "querynode", "forward_delete_latency",
      {"function_name", "node_id"}),
    M("QueryNodeWaitProcessingMsgCount", "querynode", "wait_processing_msg_count",
      {"node_id", "msg_type"}),
    M("QueryNodeConsumerMsgCount", "querynode", "consume_msg_count",
      {"node_id", "msg_type", "collection_id"}),
    M("QueryNodeNumPartitions", "querynode", "partition_num", {"node_id"}),
    M("QueryNodeNumSegments", "querynode", "segment_num",
      {"node_id", "collection_id", "partition_id", "segment_state", "indexed_field_count"}),
    M("QueryNodeNumDmlChannels", "querynode", "dml_vchannel_num", {"node_id"}),
    M("QueryNodeNumDeltaChannels", "querynode", "delta_vchannel_num", {"node_id"}),
    M("QueryNodeSQCount", "querynode", "sq_req_count",
      {"node_id", "query_type", "status", "scope"}),
    M("QueryNodeSQReqLatency", "querynode", "sq_req_latency",
      {"node_id", "query_type", "scope"})}

queryNodeMetrics2 == {
    M("QueryNodeSQLatencyWaitTSafe", "querynode", "sq_wait_tsafe_latency",
      {"node_id", "query_type"}),
    M("QueryNodeSQLatencyInQueue", "querynode", "sq_queue_latency", {"node_id", "query_type"}),
    M("QueryNodeSQPerUserLatencyInQueue", "querynode", "sq_queue_user_latency",
      {"node_id", "query_type", "username"}),
    M("QueryNodeSQSegmentLatency", "querynode", "sq_segment_latency",
      {"node_id", "query_type", "segment_state"}),
    M("QueryNodeSQSegmentLatencyInCore", "querynode", "sq_core_latency",
      {"node_id", "query_type"}),
    M("QueryNodeReduceLatency", "querynode", "sq_reduce_latency",
      {"node_id", "query_type", "reduce_level"}),
    M("QueryNodeLoadSegmentLatency", "querynode", "load_segment_latency", {"node_id"}),
    M("QueryNodeReadTaskUnsolveLen", "querynode", "read_task_unsolved_len", {"node_id"}),
    M("QueryNodeReadTaskReadyLen", "querynode", "read_task_ready_len", {"node_id"}),
    M("QueryNodeReadTaskConcurrency", "querynode", "read_task_concurrency", {"node_id"}),
    M("QueryNodeEstimateCPUUsage", "querynode", "estimate_cpu_usage", {"node_id"}),
    M("QueryNodeSearchGroupNQ", "querynode", "search_group_nq", {"node_id"}),
    M("QueryNodeSearchNQ", "querynode", "search_nq", {"node_id"})}

queryNodeMetrics3 == {
    M("QueryNodeSearchGroupTopK", "querynode", "search_group_topk", {"node_id"}),
    M("QueryNodeSearchTopK", "querynode", "search_topk", {"node_id"}),
    M("QueryNodeSearchGroupSize", "querynode", "search_group_size", {"node_id"}),
    M("QueryNodeEvictedReadReqCount", "querynode", "read_evicted_count", {"node_id"}),
    M("QueryNodeNumFlowGraphs", "querynode", "flowgraph_num", {"node_id"}),
    M("QueryNodeNumEntities", "querynode", "entity_num",
      {"node_id", "collection_id", "partition_id", "segment_state", "indexed_field_count"}),
    M("QueryNodeEntitiesSize", "querynode", "entity_size",
      {"node_id", "collection_id", "segment_state"}),
    M("QueryNodeConsumeCounter", "querynode", "consume_bytes_counter", {"node_id", "msg_type"}),
    M("QueryNodeExecuteCounter", "querynode", "execute_bytes_counter", {"node_id", "msg_type"}),
    M("QueryNodeMsgDispatcherTtLag", "querynode", "msg_dispatcher_tt_lag_ms",
      {"node_id", "channel_name"}),
    M("QueryNodeSegmentSearchLatencyPerVector", "querynode", "segment_latency_per_vector",
      {"node_id", "query_type", "segment_state"}),
    M("QueryNodeWatchDmlChannelLatency", "querynode", "watch_dml_channel_latency", {"node_id"}),
    M("QueryNodeDiskUsedSize", "querynode", "disk_used_size", {"node_id"}),
    M("StoppingBalanceNodeNum", "querynode", "stopping_balance_node_num", {})}

queryNodeMetrics4 == {
    M("StoppingBalanceChannelNum", "querynode", "stopping_balance_channel_num", {"node_id"}),
    M("StoppingBalanceSegmentNum", "querynode", "stopping_balance_segment_num", {"node_id"})}

dataCoordMetrics1 == {
    M("DataCoordNumDataNodes", "datacoord", "datanode_num", {}),
    M("DataCoordNumSegments", "datacoord", "segment_num", {"segment_state"}),
    M("DataCoordNumCollections", "datacoord", "collection_num", {}),
    M("DataCoordNumStoredRows", "datacoord", "stored_rows_num",
      {"collection_id", "segment_state"}),
    M("DataCoordNumStoredRowsCounter", "datacoord", "stored_rows_count", {}),
    M("DataCoordConsumeDataNodeTimeTickLag", "datacoord", "consume_datanode_tt_lag_ms",
      {"node_id", "channel_name"}),
    M("DataCoordCheckpointUnixSeconds", "datacoord", "channel_checkpoint_unix_seconds",
      {"node_id", "channel_name"}),
    M("DataCoordStoredBinlogSize", "datacoord", "stored_binlog_size",
      {"collection_id", "segment_id"}),
    M("DataCoordSegmentBinLogFileCount", "datacoord", "segment_binlog_file_count",
      {"collection_id", "segment_id"}),
    M("DataCoordDmlChannelNum", "datacoord", "watched_dml_chanel_num", {"node_id"}),
    M("DataCoordCompactedSegmentSize", "datacoord", "compacted_segment_size", {}),
    M("FlushedSegmentFileNum", "", "flushed_segment_file_num", {"segment_file_type"}),
    M("GarbageCollectorListLatency", "datacoord", "gc_list_latency",
      {"node_id", "segment_file_type"}),
    M("GarbageCollectorRunCount", "datacoord", "gc_run_count", {"node_id"}),
    M("DataCoordSegmentSizeRatio", "datacoord", "segment_size_ratio", {})}

dataCoordMetrics2 == {
    M("DataCoordSegmentFlushDuration", "datacoord", "segment_flush_duration", {}),
    M("DataCoordCompactDuration", "datacoord", "segment_compact_duration", {"compactType"}),
    M("DataCoordCompactLoad", "datacoord", "compaction_load", {"compactType", "IO"}),
    M("DataCoordNumCompactionTask", "datacoord", "num_compaction_tasks", {"status"}),
    M("IndexRequestCounter", "datacoord", "index_req_count", {"status"}),
    M("IndexTaskNum", "datacoord", "index_task_count", {"collection_id", "index_task_status"}),
    M("IndexNodeNum", "datacoord", "index_node_num", {})}

dataNodeMetrics1 == {
    M("DataNodeNumFlowGraphs", "datanode", "flowgraph_num", {"node_id"}),
    M("DataNodeConsumeMsgRowsCount", "datanode", "msg_rows_count", {"node_id", "msg_type"}),
    M("DataNodeFlushedSize", "datanode", "flushed_data_size", {"node_id", "msg_type"}),
    M("DataNodeNumProducers", "datanode", "producer_num", {"node_id"}),
    M("DataNodeConsumeTimeTickLag", "datanode", "consume_tt_lag_ms",
      {"node_id", "msg_type", "collection_id"}),
    M("DataNodeProduceTimeTickLag", "datanode", "produce_tt_lag_ms",
      {"node_id", "collection_id", "channel_name"}),
    M("DataNodeConsumeMsgCount", "datanode", "consume_msg_count",
      {"node_id", "msg_type", "collection_id"}),
    M("DataNodeEncodeBufferLatency", "datanode", "encode_buffer_latency", {"node_id"}),
    M("DataNodeSave2StorageLatency", "datanode", "save_latency", {"node_id", "msg_type"}),
    M("DataNodeFlushBufferCount", "datanode", "flush_buffer_op_count", {"node_id", "status"}),
    M("DataNodeAutoFlushBufferCount", "datanode", "autoflush_buffer_op_count",
      {"node_id", "status"}),
    M("DataNodeCompactionLatency", "datanode", "compaction_latency", {"node_id"}),
    M("DataNodeCompactionLatencyInQueue", "datanode", "compaction_latency_in_queue",
      {"node_id"})}

dataNodeMetrics2 == {
    M("DataNodeFlushReqCounter", "datanode", "flush_req_count", {"node_id", "status"}),
    M("DataNodeConsumeBytesCount", "datanode", "consume_counter", {"node_id", "msg_type"}),
    M("DataNodeForwardDeleteMsgTimeTaken", "datanode", "forward_delete_msg_time_taken_ms",
      {"node_id"}),
    M("DataNodeFlowGraphBufferDataSize", "datanode", "fg_buffer_size",
      {"node_id", "collection_id"}),
    M("DataNodeMsgDispatcherTtLag", "datanode", "msg_dispatcher_tt_lag_ms",
      {"node_id", "channel_name"})}

indexNodeMetrics == {
    M("IndexNodeBuildIndexTaskCounter", "indexnode", "index_task_count", {"node_id", "status"}),
    M("IndexNodeLoadFieldLatency", "indexnode", "load_field_latency", {"node_id"}),
    M("IndexNodeDecodeFieldLatency", "indexnode", "decode_field_latency", {"node_id"}),
    M("IndexNodeKnowhereBuildIndexLatency", "indexnode", "knowhere_build_index_latency",
      {"node_id"}),
    M("IndexNodeEncodeIndexFileLatency", "indexnode", "encode_index_latency", {"node_id"}),
    M("IndexNodeSaveIndexFileLatency", "indexnode", "save_index_latency", {"node_id"}),
    M("IndexNodeIndexTaskLatencyInQueue", "indexnode", "index_task_latency_in_queue",
      {"node_id"}),
    M("IndexNodeBuildIndexLatency", "indexnode", "build_index_latency", {"node_id"})}

metaMetrics == {
    M("MetaKvSize", "meta", "kv_size", {"meta_op_type"}),
    M("MetaRequestLatency", "meta", "request_latency", {"meta_op_type"}),
    M("MetaOpCounter", "meta", "op_count", {"meta_op_type", "status"})}

msgStreamMetrics == {
    M("NumConsumers", "msg_queue", "consumer_num", {"role_name", "node_id"}),
    M("MsgStreamRequestLatency", "msgstream", "request_latency", {"message_op_type"}),
    M("MsgStreamOpCounter", "msgstream", "op_count", {"message_op_type", "status"})}

storageMetrics == {
    M("PersistentDataKvSize", "storage", "kv_size", {"persistent_data_op_type"}),
    M("PersistentDataRequestLatency", "storage", "request_latency", {"persistent_data_op_type"}),
    M("PersistentDataOpCounter", "storage", "op_count", {"persistent_data_op_type", "status"})}
-------------------------------------------------------------------------------
rootCoordMetrics == rootCoordMetrics1 \cup rootCoordMetrics2
proxyMetrics == proxyMetrics1 \cup proxyMetrics2 \cup proxyMetrics3
queryNodeMetrics ==
    queryNodeMetrics1 \cup queryNodeMetrics2 \cup queryNodeMetrics3 \cup queryNodeMetrics4
dataCoordMetrics == dataCoordMetrics1 \cup dataCoordMetrics2
dataNodeMetrics == dataNodeMetrics1 \cup dataNodeMetrics2

but(metrics, vars) == {m \in metrics : m.var \notin vars}

\* RegisterRootCoord and RegisterDataCoord leave collectors out: those are never published.
RegisterRootCoord == but(rootCoordMetrics, {"RootCoordProxyCounter", "RootCoordNumOfDatabases"})
RegisterProxy == proxyMetrics
RegisterQueryCoord == queryCoordMetrics
RegisterQueryNode == queryNodeMetrics
RegisterDataCoord ==
    but(dataCoordMetrics, {"GarbageCollectorListLatency", "GarbageCollectorRunCount",
                           "DataCoordSegmentSizeRatio", "DataCoordSegmentFlushDuration",
                           "DataCoordCompactDuration", "DataCoordCompactLoad",
                           "DataCoordNumCompactionTask"})
RegisterDataNode == dataNodeMetrics
RegisterIndexNode == indexNodeMetrics
RegisterMetaMetrics == metaMetrics
RegisterMsgStreamMetrics == msgStreamMetrics
storageMetricsCopied == metaMetrics                                           \* mutant
RegisterStorageMetrics == storageMetrics
Register == commonMetrics \cup infoMetrics

Registers == [
    RootCoord |-> RegisterRootCoord, Proxy |-> RegisterProxy, QueryCoord |-> RegisterQueryCoord,
    QueryNode |-> RegisterQueryNode, DataCoord |-> RegisterDataCoord,
    DataNode |-> RegisterDataNode, IndexNode |-> RegisterIndexNode,
    Meta |-> RegisterMetaMetrics, MsgStream |-> RegisterMsgStreamMetrics,
    Storage |-> RegisterStorageMetrics, common |-> Register]

LabelsOf == [v \in {m.var : m \in UNION {Registers[r] : r \in DOMAIN Registers}} |->
                (CHOOSE m \in UNION {Registers[r] : r \in DOMAIN Registers} : m.var = v).labels]
===============================================================================
