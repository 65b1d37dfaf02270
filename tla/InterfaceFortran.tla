-------------------------- MODULE InterfaceFortran --------------------------
(***************************************************************************)
(* The functions of the Fortran interface: each calls the C function that  *)
(* its interface block binds.  A function that does what one in C does has *)
(* its name here, in the spelling of C; arrays of another rank, a length   *)
(* or the values of an array have functions of their own.                  *)
(***************************************************************************)
EXTENDS InterfaceRows

(***************************************************************************)
(* Objects                                                                 *)
(***************************************************************************)
\* kim_collections_module.f90
CollectionsItems ==
  Of("Collections", {
    Call("GetItemType", <<Text("itemName"), Out("itemType")>>),
    Call("GetItemLibraryFileNameAndCollection", <<In("itemType"), Text("itemName"),
      AlwaysText("fileName"), Out("collection")>>),
    Call("CacheListOfItemMetadataFiles", <<In("itemType"), Text("itemName"), Out("extent")>>)})

CollectionsItemFiles ==
  Of("Collections", {
    As("GetItemMetadataFileLength", Call("GetItemMetadataFile_fortran", <<Index("index"),
      Local("fileName"), Out("fileLength"), Local("fileRawData"), Out("availableAsString"),
      Local("fileString")>>)),
    As("GetItemMetadataFileValues", Call("GetItemMetadataFile_fortran", <<Index("index"),
      OutText("fileName"), Local("fileLength"), Out("fileRawData"), Local("availableAsString"),
      TextOrNull("fileString")>>))})

CollectionsNames ==
  Of("Collections", {
    Call("CacheListOfItemNamesByType", <<In("itemType"), Out("extent")>>),
    Call("GetItemNameByType", <<Index("index"), AlwaysText("itemName")>>),
    Call("CacheListOfItemNamesByCollectionAndType", <<In("collection"), In("itemType"),
      Out("extent")>>)})

CollectionsNamesInCollection ==
  Of("Collections", {
    Call("GetItemNameByCollectionAndType", <<Index("index"), AlwaysText("itemName")>>),
    Call("GetItemLibraryFileNameByCollectionAndType", <<In("collection"), In("itemType"),
      Text("itemName"), AlwaysText("fileName")>>)})

CollectionsFilesInCollection ==
  Of("Collections", {
    Call("CacheListOfItemMetadataFilesByCollectionAndType", <<In("collection"), In("itemType"),
      Text("itemName"), Out("extent")>>),
    As("GetItemMetadataFileLengthByCollectionAndType",
      Call("GetItemMetadataFileByCollectionAndType_fortran", <<Index("index"), Local("fileName"),
      Out("fileLength"), Local("fileRawData"), Out("availableAsString"), Local("fileString")>>))})

CollectionsFileValues ==
  Of("Collections", {
    As("GetItemMetadataFileValuesByCollectionAndType",
      Call("GetItemMetadataFileByCollectionAndType_fortran", <<Index("index"), OutText("fileName"),
      Local("fileLength"), Out("fileRawData"), Local("availableAsString"), TextOrNull("fileString")>>)),
    Do("GetProjectNameAndSemVer", <<OutText("projectName"), OutText("semVer")>>)})

CollectionsConfiguration ==
  Of("Collections", {
    Call("GetEnvironmentVariableName", <<In("itemType"), AlwaysText("name")>>),
    Do("GetConfigurationFileEnvironmentVariable", <<OutText("name"), OutText("value")>>),
    Do("GetConfigurationFileName", <<OutText("fileName")>>),
    Call("CacheListOfDirectoryNames", <<In("collection"), In("itemType"), Out("extent")>>)})

CollectionsDirectories ==
  Of("Collections", {
    Call("GetDirectoryName", <<Index("index"), AlwaysText("directoryName")>>),
    Do("SetLogID", <<Text("logID")>>),
    Do("PushLogVerbosity", <<In("logVerbosity")>>),
    Do("PopLogVerbosity", <<>>)})

\* kim_compute_arguments_module.f90
ComputeArgumentsSupport ==
  Of("ComputeArguments", {
    Call("GetArgumentSupportStatus", <<In("computeArgumentName"), Out("supportStatus")>>),
    Call("GetCallbackSupportStatus", <<In("computeCallbackName"), Out("supportStatus")>>),
    As("SetArgumentPointerInt0", Call("SetArgumentPointerInteger", <<In("computeArgumentName"),
      In("ptr")>>))})

ComputeArgumentsIntegerArrays ==
  Of("ComputeArguments", {
    As("SetArgumentPointerInt1", Call("SetArgumentPointerInteger", <<In("computeArgumentName"),
      Array("ptr")>>)),
    As("SetArgumentPointerInt2", Call("SetArgumentPointerInteger", <<In("computeArgumentName"),
      Array("ptr")>>))})

ComputeArgumentsDoubleArrays ==
  Of("ComputeArguments", {
    As("SetArgumentPointerDouble0", Call("SetArgumentPointerDouble", <<In("computeArgumentName"),
      In("ptr")>>)),
    As("SetArgumentPointerDouble1", Call("SetArgumentPointerDouble", <<In("computeArgumentName"),
      Array("ptr")>>)),
    As("SetArgumentPointerDouble2", Call("SetArgumentPointerDouble", <<In("computeArgumentName"),
      Array("ptr")>>))})

ComputeArgumentsCallbacks ==
  Of("ComputeArguments", {
    Call("SetCallbackPointer", <<In("computeCallbackName"), In("languageName"), In("fptr"),
      In("dataObject")>>),
    As("AreAllRequiredPresent", Undefined("AreAllRequiredArgumentsAndCallbacksPresent",
      <<Out("result")>>)),
    Do("SetSimulatorBufferPointer", <<In("ptr")>>),
    Do("GetSimulatorBufferPointer", <<Out("ptr")>>)})

ComputeArgumentsLog ==
  Of("ComputeArguments", {
    Say("ToString", <<>>),
    Do("SetLogID", <<Text("logID")>>),
    Do("PushLogVerbosity", <<In("logVerbosity")>>),
    Do("PopLogVerbosity", <<>>)})

\* kim_log_module.f90
LogDefaults ==
  Of("Log", {
    Do("PushDefaultVerbosity", <<In("logVerbosity")>>),
    Do("PopDefaultVerbosity", <<>>),
    Do("PushDefaultPrintFunction", <<In("languageName"), In("fptr")>>),
    Do("PopDefaultPrintFunction", <<>>)})

Log ==
  Of("Log", {
    Say("GetID", <<>>),
    Do("SetID", <<Text("id")>>),
    Do("PushVerbosity", <<In("logVerbosity")>>),
    Do("PopVerbosity", <<>>),
    Do("LogEntry", EntryWithoutPlace)})

\* kim_model_compute_arguments_create_module.f90
ComputeArgumentsCreateSupport ==
  Of("ModelComputeArgumentsCreate", {
    Call("SetArgumentSupportStatus", <<In("computeArgumentName"), In("supportStatus")>>),
    Call("SetCallbackSupportStatus", <<In("computeCallbackName"), In("supportStatus")>>)})

ComputeArgumentsCreateBuffer ==
  Of("ModelComputeArgumentsCreate", {
    Do("SetModelBufferPointer", <<In("ptr")>>),
    Do("LogEntry", EntryWithoutPlace),
    Say("ToString", <<>>)})

\* kim_model_compute_arguments_destroy_module.f90
ModelComputeArgumentsDestroy ==
  Of("ModelComputeArgumentsDestroy", {
    Do("GetModelBufferPointer", <<Out("ptr")>>),
    Do("LogEntry", EntryWithoutPlace),
    Say("ToString", <<>>)})

\* kim_model_compute_arguments_module.f90
NeighborListAndFirstDerivative ==
  Of("ModelComputeArguments", {
    Call("GetNeighborList", <<Index("neighborListIndex"), In("particleNumber"),
      Out("numberOfNeighbors"), Out("neighborsOfParticle")>>),
    Call("ProcessDEDrTerm", <<In("de"), In("r"), First("dx"), In("i"), In("j")>>)})

SecondDerivativeAndIntegers ==
  Of("ModelComputeArguments", {
    Call("ProcessD2EDr2Term", <<In("de"), First("r"), First("dx"), First("i"), First("j")>>),
    As("GetArgumentPointerInt0", Call("GetArgumentPointerInteger", <<In("computeArgumentName"),
      Out("ptr")>>)),
    As("GetArgumentPointerInt1", Call("GetArgumentPointerInteger", <<In("computeArgumentName"),
      Out("ptr")>>))})

IntegerArraysAndDoubles ==
  Of("ModelComputeArguments", {
    As("GetArgumentPointerInt2", Call("GetArgumentPointerInteger", <<In("computeArgumentName"),
      Out("ptr")>>)),
    As("GetArgumentPointerDouble0", Call("GetArgumentPointerDouble", <<In("computeArgumentName"),
      Out("ptr")>>)),
    As("GetArgumentPointerDouble1", Call("GetArgumentPointerDouble", <<In("computeArgumentName"),
      Out("ptr")>>))})

DoubleArraysAndCallbacks ==
  Of("ModelComputeArguments", {
    As("GetArgumentPointerDouble2", Call("GetArgumentPointerDouble", <<In("computeArgumentName"),
      Out("ptr")>>)),
    Call("IsCallbackPresent", <<In("computeCallbackName"), Out("present")>>),
    Do("SetModelBufferPointer", <<In("ptr")>>)})

ModelComputeArguments ==
  Of("ModelComputeArguments", {
    Do("GetModelBufferPointer", <<Out("ptr")>>),
    Do("LogEntry", EntryWithoutPlace),
    Say("ToString", <<>>)})

\* kim_model_compute_module.f90
ModelCompute ==
  Of("ModelCompute", {
    Do("GetModelBufferPointer", <<Out("ptr")>>),
    Do("LogEntry", EntryWithoutPlace),
    Say("ToString", <<>>)})

\* kim_model_create_module.f90
ModelCreateSettings ==
  Of("ModelCreate", {
    Call("SetModelNumbering", <<In("numbering")>>),
    Do("SetInfluenceDistancePointer", <<In("influenceDistance")>>),
    Do("SetNeighborListPointers", <<In("numberOfNeighborLists"), Array("cutoffs"),
      Array("modelWillNotRequestNeighborsOfNoncontributingParticles")>>)})

ModelCreateRoutines ==
  Of("ModelCreate", {
    Call("SetRoutinePointer", <<In("modelRoutineName"), In("languageName"), In("required"),
      In("fptr")>>),
    Call("SetSpeciesCode", <<In("speciesName"), In("code")>>),
    Call("SetParameterPointerInteger", <<Fixed("extent"), Array("ptr"), Text("name"),
      Text("description")>>)})

ModelCreateParameters ==
  Of("ModelCreate", {
    Call("SetParameterPointerDouble", <<Fixed("extent"), Array("ptr"), Text("name"),
      Text("description")>>),
    Do("SetModelBufferPointer", <<In("ptr")>>),
    Call("SetUnits", UnitsIn)})

ModelCreate ==
  Of("ModelCreate", {
    Call("ConvertUnit", UnitConversion),
    Do("LogEntry", EntryWithoutPlace),
    Say("ToString", <<>>)})

\* kim_model_destroy_module.f90
ModelDestroy ==
  Of("ModelDestroy", {
    Do("GetModelBufferPointer", <<Out("ptr")>>),
    Do("LogEntry", EntryWithoutPlace),
    Say("ToString", <<>>)})

\* kim_model_driver_create_module.f90
ModelDriverCreateFiles ==
  Of("ModelDriverCreate", {
    Do("GetParameterFileDirectoryName", <<OutText("directoryName")>>),
    Do("GetNumberOfParameterFiles", <<Out("numberOfParameterFiles")>>),
    Call("GetParameterFileName", <<Index("index"), AlwaysText("parameterFileName")>>)})

ModelDriverCreateSettings ==
  Of("ModelDriverCreate", {
    Call("GetParameterFileBasename", <<Index("index"), AlwaysText("parameterFileBasename")>>),
    Call("SetModelNumbering", <<In("numbering")>>),
    Do("SetInfluenceDistancePointer", <<In("influenceDistance")>>),
    Do("SetNeighborListPointers", <<In("numberOfNeighborLists"), Array("cutoffs"),
      Array("modelWillNotRequestNeighborsOfNoncontributingParticles")>>)})

ModelDriverCreateRoutines ==
  Of("ModelDriverCreate", {
    Call("SetRoutinePointer", <<In("modelRoutineName"), In("languageName"), In("required"),
      In("fptr")>>),
    Call("SetSpeciesCode", <<In("speciesName"), In("code")>>),
    Call("SetParameterPointerInteger", <<Fixed("extent"), Array("ptr"), Text("name"),
      Text("description")>>)})

ModelDriverCreateParameters ==
  Of("ModelDriverCreate", {
    Call("SetParameterPointerDouble", <<Fixed("extent"), Array("ptr"), Text("name"),
      Text("description")>>),
    Do("SetModelBufferPointer", <<In("ptr")>>),
    Call("SetUnits", UnitsIn)})

ModelDriverCreate ==
  Of("ModelDriverCreate", {
    Call("ConvertUnit", UnitConversion),
    Do("LogEntry", EntryWithoutPlace),
    Say("ToString", <<>>)})

\* kim_model_extension_module.f90
ModelExtensionID ==
  Of("ModelExtension", {
    Do("GetExtensionID", <<OutText("extensionID")>>)})

ModelExtension ==
  Of("ModelExtension", {
    Do("GetModelBufferPointer", <<Out("ptr")>>),
    Do("LogEntry", EntryWithoutPlace),
    Say("ToString", <<>>)})

\* kim_model_module.f90
ModelCreation ==
  Of("Model", {
    Call("Create", <<In("numbering"), In("requestedLengthUnit"), In("requestedEnergyUnit"),
      In("requestedChargeUnit"), In("requestedTemperatureUnit"), In("requestedTimeUnit"),
      Text("modelName"), Out("requestedUnitsAccepted")>>)})

ModelDistances ==
  Of("Model", {
    Call("IsRoutinePresent", <<In("modelRoutineName"), Out("present"), Out("required")>>),
    Do("GetInfluenceDistance", <<Out("influenceDistance")>>),
    As("GetNumberOfNeighborLists", Do("GetNeighborListPointers", <<Out("numberOfNeighborLists"),
      Local("cutoffs"), Local("modelWillNotRequestNeighborsOfNoncontributingParticles")>>))})

ModelCutoffsAndUnits ==
  Of("Model", {
    As("GetNeighborListValues", Own("GetNeighborListPointers", <<Local("numberOfNeighborLists"),
      Copied("cutoffs"), Copied("modelWillNotRequestNeighborsOfNoncontributingParticles")>>)),
    Do("GetUnits", <<Out("lengthUnit"), Out("energyUnit"), Out("chargeUnit"), Out("temperatureUnit"),
      Out("timeUnit")>>)})

ModelOperations ==
  Of("Model", {
    Call("Compute", <<In("computeArguments")>>),
    Call("Extension", <<Text("extensionID"), In("extensionStructure")>>),
    Call("ClearThenRefresh", <<>>)})

ModelSpecies ==
  Of("Model", {
    Call("WriteParameterizedModel", <<Text("path"), Text("modelName")>>),
    Call("GetSpeciesSupportAndCode", <<In("speciesName"), Out("speciesIsSupported"), Out("code")>>),
    Do("GetNumberOfParameters", <<Out("numberOfParameters")>>)})

ModelParameters ==
  Of("Model", {
    Call("GetParameterMetadata", <<Index("parameterIndex"), Out("dataType"), Out("extent"),
      AlwaysText("name"), AlwaysText("description")>>),
    Call("GetParameterInteger", <<Index("parameterIndex"), Index("arrayIndex"),
      Out("parameterValue")>>),
    Call("GetParameterDouble", <<Index("parameterIndex"), Index("arrayIndex"),
      Out("parameterValue")>>)})

ModelSetParameters ==
  Of("Model", {
    Call("SetParameterInteger", <<Index("parameterIndex"), Index("arrayIndex"), In("parameterValue")>>),
    Call("SetParameterDouble", <<Index("parameterIndex"), Index("arrayIndex"), In("parameterValue")>>),
    Do("SetSimulatorBufferPointer", <<In("ptr")>>),
    Do("GetSimulatorBufferPointer", <<Out("ptr")>>)})

ModelLog ==
  Of("Model", {
    Say("ToString", <<>>),
    Do("SetLogID", <<Text("logID")>>),
    Do("PushLogVerbosity", <<In("logVerbosity")>>),
    Do("PopLogVerbosity", <<>>)})

\* kim_model_refresh_module.f90
ModelRefreshSettings ==
  Of("ModelRefresh", {
    Do("SetInfluenceDistancePointer", <<In("influenceDistance")>>),
    Do("SetNeighborListPointers", <<In("numberOfNeighborLists"), Array("cutoffs"),
      Array("modelWillNotRequestNeighborsOfNoncontributingParticles")>>)})

ModelRefresh ==
  Of("ModelRefresh", {
    Do("GetModelBufferPointer", <<Out("ptr")>>),
    Do("LogEntry", EntryWithoutPlace),
    Say("ToString", <<>>)})

\* kim_model_write_parameterized_model_module.f90
WriteParameterizedModelFiles ==
  Of("ModelWriteParameterizedModel", {
    Do("GetPath", <<OutText("path")>>),
    Do("GetModelName", <<OutText("modelName")>>),
    Do("SetParameterFileName", <<Text("fileName")>>)})

WriteParameterizedModelBuffer ==
  Via("ModelWriteParameterizedModel", "ModelCompute", {
    Do("GetModelBufferPointer", <<Out("ptr")>>),
    Do("LogEntry", EntryWithoutPlace),
    Say("ToString", <<>>)})

\* kim_sem_ver_module.f90
SemVer ==
  Of("SemVer", {
    Call("IsLessThan", <<Text("lhs"), Text("rhs"), Out("isLessThan")>>)})

\* kim_simulator_model_module.f90
SimulatorModelSpecies ==
  Of("SimulatorModel", {
    Do("GetSimulatorNameAndVersion", <<OutText("simulatorName"), OutText("simulatorVersion")>>),
    Do("GetNumberOfSupportedSpecies", <<Out("numberOfSupportedSpecies")>>),
    Call("GetSupportedSpecies", <<Index("index"), AlwaysText("speciesName")>>),
    Do("OpenAndInitializeTemplateMap", <<>>)})

SimulatorModelFields ==
  Of("SimulatorModel", {
    Ask("TemplateMapIsOpen", <<>>),
    Call("AddTemplateMap", <<Text("key"), Text("value")>>),
    Do("CloseTemplateMap", <<>>),
    Do("GetNumberOfSimulatorFields", <<Out("numberOfSimulatorFields")>>),
    Call("GetSimulatorFieldMetadata", <<Index("fieldIndex"), Out("extent"), AlwaysText("fieldName")>>)})

SimulatorModelLines ==
  Of("SimulatorModel", {
    Call("GetSimulatorFieldLine", <<Index("fieldIndex"), Index("lineIndex"), AlwaysText("lineValue")>>),
    Do("GetParameterFileDirectoryName", <<OutText("directoryName")>>),
    Do("GetSpecificationFileName", <<OutText("specificationFileName")>>),
    Do("GetNumberOfParameterFiles", <<Out("numberOfParameterFiles")>>)})

SimulatorModelFiles ==
  Of("SimulatorModel", {
    Call("GetParameterFileName", <<Index("index"), AlwaysText("parameterFileName")>>),
    Call("GetParameterFileBasename", <<Index("index"), AlwaysText("parameterFileBasename")>>),
    Do("SetSimulatorBufferPointer", <<In("ptr")>>),
    Do("GetSimulatorBufferPointer", <<Out("ptr")>>)})

SimulatorModelLog ==
  Of("SimulatorModel", {
    Say("ToString", <<>>),
    Do("SetLogID", <<Text("logID")>>),
    Do("PushLogVerbosity", <<In("logVerbosity")>>),
    Do("PopLogVerbosity", <<>>)})

(***************************************************************************)
(* Enumerations                                                            *)
(***************************************************************************)
ChargeUnit == Enumeration("ChargeUnit")
CollectionItemType == Enumeration("CollectionItemType")
Collection == Enumeration("Collection")
ComputeArgumentName ==
  Enumeration("ComputeArgumentName")
  \cup Of("ComputeArgumentName", {Call("GetComputeArgumentDataType", <<In("value"), Out("dataType")>>)})
ComputeCallbackName == Enumeration("ComputeCallbackName")
DataType == Enumeration("DataType")
EnergyUnit == Enumeration("EnergyUnit")
LanguageName == Enumeration("LanguageName")
LengthUnit == Enumeration("LengthUnit")
LogVerbosity == Enumeration("LogVerbosity")
ModelRoutineName == Enumeration("ModelRoutineName")
Numbering == Enumeration("Numbering")
SpeciesName == Enumeration("SpeciesName")
SupportStatus == Enumeration("SupportStatus")
TemperatureUnit == Enumeration("TemperatureUnit")
TimeUnit == Enumeration("TimeUnit")

(***************************************************************************)
(* All of them                                                             *)
(***************************************************************************)
Rows ==
  UNION {CollectionsItems, CollectionsItemFiles, CollectionsNames, CollectionsNamesInCollection,
    CollectionsFilesInCollection, CollectionsFileValues, CollectionsConfiguration,
    CollectionsDirectories, ComputeArgumentsSupport, ComputeArgumentsIntegerArrays,
    ComputeArgumentsDoubleArrays, ComputeArgumentsCallbacks, ComputeArgumentsLog, LogDefaults,
    Log, ComputeArgumentsCreateSupport, ComputeArgumentsCreateBuffer,
    ModelComputeArgumentsDestroy, NeighborListAndFirstDerivative, SecondDerivativeAndIntegers,
    IntegerArraysAndDoubles, DoubleArraysAndCallbacks, ModelComputeArguments, ModelCompute,
    ModelCreateSettings, ModelCreateRoutines, ModelCreateParameters, ModelCreate, ModelDestroy,
    ModelDriverCreateFiles, ModelDriverCreateSettings, ModelDriverCreateRoutines,
    ModelDriverCreateParameters, ModelDriverCreate, ModelExtensionID, ModelExtension,
    ModelCreation, ModelDistances, ModelCutoffsAndUnits, ModelOperations, ModelSpecies,
    ModelParameters, ModelSetParameters, ModelLog, ModelRefreshSettings, ModelRefresh,
    WriteParameterizedModelFiles, WriteParameterizedModelBuffer, SemVer, SimulatorModelSpecies,
    SimulatorModelFields, SimulatorModelLines, SimulatorModelFiles, SimulatorModelLog,
    ChargeUnit, CollectionItemType, Collection, ComputeArgumentName, ComputeCallbackName,
    DataType, EnergyUnit, LanguageName, LengthUnit, LogVerbosity, ModelRoutineName, Numbering,
    SpeciesName, SupportStatus, TemperatureUnit, TimeUnit}
=============================================================================
